---- MODULE Spec2Model ----
(***************************************************************************)
(* Model of the FS25 save editor's save path: the backup manager           *)
(* (backup/manager.rs), the save transaction save_changes                  *)
(* (commands/savegame.rs) and the finance writers (writers/career.rs,      *)
(* writers/farm.rs) with the readers that read their output back.          *)
(*                                                                         *)
(* Files are token sequences as quick-xml reports them (declaration,       *)
(* start, end, empty, text).  An attribute value or a text is a string;    *)
(* the strings that matter are decimal numerals, kept as the numeral they  *)
(* spell: "int" n is the numeral of the integer n, "fix6" n the numeral    *)
(* with six decimals of n millionths.  An f64 is kept as a count of        *)
(* ten-millionths, so that both the {:.6} rounding and the `as i64`        *)
(* truncation are visible.                                                 *)
(***************************************************************************)
EXTENDS Integers, Sequences, FiniteSets, TLC

\* ------------------------------------------------------------------ bounds
\* The clock (in seconds, the resolution of a backup name) stops here.
MaxClock == 1
\* At most this many sub-domains are present in one changeset.
MaxPresent == 2
\* Commands (save_changes, create_backup) issued in one session.
MaxOps == 2

\* --------------------------------------------------------------- numerals
\* 1.0 as an f64 of the model (ten-millionths).
Unit == 10000000
\* {:.6} keeps millionths: ten-millionths per millionth.
Sub == 10

None == [none |-> TRUE]
Some(v) == [some |-> v]
IsSome(o) == "some" \in DOMAIN o

IntStr(n) == [fmt |-> "int", n |-> n]
Fix6Str(n) == [fmt |-> "fix6", n |-> n]
Raw(s) == [fmt |-> "raw", s |-> s]
\* A text with an ampersand in it, as the bytes that stand for it after esc
\* rounds of escaping: "A & B" (0), "A &amp; B" (1, what a document holds),
\* "A &amp;amp; B" (2), ...
Ent(s, esc) == [fmt |-> "ent", s |-> s, esc |-> esc]
\* quick_xml escape: & becomes &amp; once more; other texts have nothing to escape
Escape(v) == IF v.fmt = "ent" THEN Ent(v.s, v.esc + 1) ELSE v
\* BytesText::unescape
Unescape(v) == IF v.fmt = "ent" /\ v.esc > 0 THEN Ent(v.s, v.esc - 1) ELSE v

\* format!("{:.6}", v): round to the nearest millionth (ties to even).
FormatFix6(v) ==
  LET q == v \div Sub
      r == v % Sub
      up == r > 5 \/ (r = 5 /\ q % 2 = 1)
  IN Fix6Str(IF up THEN q + 1 ELSE q)

\* `v as i64`: truncation toward zero.
AsI64(v) == IF v >= 0 THEN v \div Unit ELSE -((-v) \div Unit)

\* format!("{}", money as i64)
FormatI64(v) == IntStr(AsI64(v))

\* str::parse::<f64>().unwrap_or(0.0)
ParseF64(s) ==
  CASE s.fmt = "int" -> s.n * Unit
    [] s.fmt = "fix6" -> s.n * Sub
    [] OTHER -> 0

\* str::parse::<u8>().unwrap_or(0)
ParseU8(s) == IF s.fmt = "int" /\ s.n >= 0 /\ s.n <= 255 THEN s.n ELSE 0

\* ----------------------------------------------------------------- tokens
NoText == Raw("")
Attr(k, v) == [key |-> k, value |-> v]
Decl == [kind |-> "decl", tag |-> "xml", attrs |-> <<>>, text |-> NoText]
StartTok(t, as) == [kind |-> "start", tag |-> t, attrs |-> as, text |-> NoText]
EmptyTok(t, as) == [kind |-> "empty", tag |-> t, attrs |-> as, text |-> NoText]
EndTok(t) == [kind |-> "end", tag |-> t, attrs |-> <<>>, text |-> NoText]
TextTok(s) == [kind |-> "text", tag |-> "", attrs |-> <<>>, text |-> s]

\* e.attributes().find(|a| a.key == key) as an index, 0 when absent
AttrIndex(as, k) ==
  IF \E i \in 1..Len(as) : as[i].key = k
  THEN CHOOSE i \in 1..Len(as) : as[i].key = k /\ \A j \in 1..(i - 1) : as[j].key # k
  ELSE 0

HasAttr(as, k) == AttrIndex(as, k) # 0
AttrValue(as, k) == IF HasAttr(as, k) THEN as[AttrIndex(as, k)].value ELSE NoText

\* elem.push_attribute((key, value)) with two &str: the value is escaped
PushAttribute(k, v) == Attr(k, Escape(v))
\* The loop every patch routine shares: each attribute of the element, in
\* order, pushed with the value `new` has for its key, or else with its own
\* raw value.
PatchAttrs(as, new) ==
  [i \in 1..Len(as) |->
     IF as[i].key \in DOMAIN new THEN PushAttribute(as[i].key, new[as[i].key])
     ELSE PushAttribute(as[i].key, as[i].value)]

\* ------------------------------------------------------- the file system
\* A name is a stem and an extension, as Path::with_extension sees it.
Xml(b) == [base |-> b, ext |-> "xml"]
DirName(b) == [base |-> b, ext |-> ""]
\* xml_path.with_extension("xml.tmp")
WithTmpExtension(name) == [name EXCEPT !.ext = "xml.tmp"]

CareerFile == Xml("careerSavegame")
FarmsFile == Xml("farms")
VehiclesFile == Xml("vehicles")
SalesFile == Xml("sales")
FieldsFile == Xml("fields")
FarmlandFile == Xml("farmland")
PlaceablesFile == Xml("placeables")
MissionsFile == Xml("missions")
CollectiblesFile == Xml("collectibles")
ContractsFile == Xml("r_contracts")
EnvironmentFile == Xml("environment")

\* The directory that is edited: <parent>/savegame1.
SaveDirName == DirName("savegame1")

\* A directory tree is a function from the relative paths of its files to
\* their contents; a path is the sequence of names that leads to the file.
EmptyTree == [p \in {} |-> None]
Exists(tree, p) == p \in DOMAIN tree
Put(tree, p, d) == [q \in (DOMAIN tree) \cup {p} |-> IF q = p THEN d ELSE tree[q]]
Remove(tree, p) == [q \in (DOMAIN tree) \ {p} |-> tree[q]]
\* the files `paths` of src, placed under the directory `pre` of dst
CopyInto(dst, src, paths, pre) ==
  [q \in (DOMAIN dst) \cup {pre \o p : p \in paths} |->
     IF q \in DOMAIN dst THEN dst[q] ELSE src[SubSeq(q, Len(pre) + 1, Len(q))]]

\* ---------------------------------------------------- writers/career.rs
\* the attribute loop of write_career_money (both Start and Empty branch)
RECURSIVE PatchCareerAttrs(_, _)
PatchCareerAttrs(as, money) ==
  IF as = <<>> THEN <<>>
  ELSE <<IF Head(as).key = "money"
         THEN PushAttribute("money", FormatFix6(money))
         ELSE PushAttribute(Head(as).key, Head(as).value)>> \o PatchCareerAttrs(Tail(as), money)

\* the event loop of write_career_money over the tokens from position i on
RECURSIVE CareerLoop(_, _, _, _, _)
CareerLoop(toks, i, money, in_statistics, in_money_tag) ==
  IF i > Len(toks) THEN <<>>
  ELSE LET e == toks[i] IN
    CASE e.kind = "start" ->
           IF e.tag = "statistics"
           THEN <<StartTok("statistics", PatchCareerAttrs(e.attrs, money))>>
                \o CareerLoop(toks, i + 1, money, TRUE, in_money_tag)
           ELSE IF in_statistics /\ e.tag = "money"
           THEN <<e>> \o CareerLoop(toks, i + 1, money, in_statistics, TRUE)
           ELSE <<e>> \o CareerLoop(toks, i + 1, money, in_statistics, in_money_tag)
      [] e.kind = "text" ->
           IF in_money_tag
           THEN <<TextTok(FormatI64(money))>>
                \o CareerLoop(toks, i + 1, money, in_statistics, in_money_tag)
           ELSE <<e>> \o CareerLoop(toks, i + 1, money, in_statistics, in_money_tag)
      [] e.kind = "end" ->
           IF e.tag = "money" /\ in_statistics
           THEN <<e>> \o CareerLoop(toks, i + 1, money, in_statistics, FALSE)
           ELSE IF e.tag = "statistics"
           THEN <<e>> \o CareerLoop(toks, i + 1, money, FALSE, in_money_tag)
           ELSE <<e>> \o CareerLoop(toks, i + 1, money, in_statistics, in_money_tag)
      [] e.kind = "empty" ->
           IF e.tag = "statistics"
           THEN <<EmptyTok("statistics", PatchCareerAttrs(e.attrs, money))>>
                \o CareerLoop(toks, i + 1, money, in_statistics, in_money_tag)
           ELSE <<e>> \o CareerLoop(toks, i + 1, money, in_statistics, in_money_tag)
      [] OTHER -> <<e>> \o CareerLoop(toks, i + 1, money, in_statistics, in_money_tag)

\* the output buffer of write_career_money
CareerOutput(toks, money) == CareerLoop(toks, 1, money, FALSE, FALSE)

\* ------------------------------------------------------ writers/farm.rs
\* the attribute loop of write_farm_finances on the matched farm
RECURSIVE PatchFarmAttrs(_, _, _)
PatchFarmAttrs(as, money, loan) ==
  IF as = <<>> THEN <<>>
  ELSE <<CASE Head(as).key = "money" /\ IsSome(money) ->
                PushAttribute("money", FormatFix6(money.some))
           [] Head(as).key = "loan" /\ IsSome(loan) ->
                PushAttribute("loan", FormatFix6(loan.some))
           [] OTHER -> PushAttribute(Head(as).key, Head(as).value)>> \o PatchFarmAttrs(Tail(as), money, loan)

\* farmId of a <farm> start tag: the attribute parsed as u8, 0 when absent
FarmIdOf(e) == IF HasAttr(e.attrs, "farmId") THEN ParseU8(AttrValue(e.attrs, "farmId")) ELSE 0

\* the event loop of write_farm_finances
RECURSIVE FarmLoop(_, _, _, _, _)
FarmLoop(toks, i, farm_id, money, loan) ==
  IF i > Len(toks) THEN <<>>
  ELSE LET e == toks[i] IN
    (IF e.kind = "start" /\ e.tag = "farm" /\ FarmIdOf(e) = farm_id
     THEN <<StartTok("farm", PatchFarmAttrs(e.attrs, money, loan))>>
     ELSE <<e>>) \o FarmLoop(toks, i + 1, farm_id, money, loan)

\* the output buffer of write_farm_finances
FarmOutput(toks, farm_id, money, loan) == FarmLoop(toks, 1, farm_id, money, loan)

\* ---------------------------------------------------- parsers/career.rs
\* money out of the attributes of <statistics>; `money` when there is none
StatsMoney(as, money) == IF HasAttr(as, "money") THEN ParseF64(AttrValue(as, "money")) ELSE money

\* the event loop of parse_career, for the money field
RECURSIVE ParseCareerLoop(_, _, _, _, _, _)
ParseCareerLoop(toks, i, money, current_tag, in_settings, in_statistics) ==
  IF i > Len(toks) THEN money
  ELSE LET e == toks[i] IN
    CASE e.kind = "start" ->
           LET ins == in_settings \/ e.tag = "settings"
               inst == in_statistics \/ e.tag = "statistics"
               m == IF e.tag = "statistics" THEN StatsMoney(e.attrs, money) ELSE money
               ct == IF ins \/ inst THEN e.tag ELSE current_tag
           IN ParseCareerLoop(toks, i + 1, m, ct, ins, inst)
      [] e.kind = "end" ->
           ParseCareerLoop(toks, i + 1, money, "",
                           in_settings /\ e.tag # "settings",
                           IF e.tag = "settings" THEN in_statistics
                           ELSE in_statistics /\ e.tag # "statistics")
      [] e.kind = "text" ->
           IF ~in_settings /\ in_statistics /\ current_tag = "money"
           THEN ParseCareerLoop(toks, i + 1, ParseF64(e.text), current_tag,
                                in_settings, in_statistics)
           ELSE ParseCareerLoop(toks, i + 1, money, current_tag, in_settings, in_statistics)
      [] e.kind = "empty" ->
           ParseCareerLoop(toks, i + 1,
                           IF e.tag = "statistics" THEN StatsMoney(e.attrs, money) ELSE money,
                           current_tag, in_settings, in_statistics)
      [] OTHER -> ParseCareerLoop(toks, i + 1, money, current_tag, in_settings, in_statistics)

\* parse_career(..).money
ParseCareerMoney(toks) == ParseCareerLoop(toks, 1, 0, "", FALSE, FALSE)

\* ------------------------------------------------------ parsers/farm.rs
\* attr_f64
AttrF64(as, k) == ParseF64(AttrValue(as, k))

\* the event loop of parse_farms: the farms pushed at each </farm>
RECURSIVE ParseFarmsLoop(_, _, _)
ParseFarmsLoop(toks, i, current_farm) ==
  IF i > Len(toks) THEN <<>>
  ELSE LET e == toks[i] IN
    CASE e.kind = "start" /\ e.tag = "farm" ->
           ParseFarmsLoop(toks, i + 1,
             Some([farm_id |-> FarmIdOf(e),
                   loan |-> AttrF64(e.attrs, "loan"),
                   money |-> AttrF64(e.attrs, "money")]))
      [] e.kind = "end" /\ e.tag = "farm" ->
           (IF IsSome(current_farm) THEN <<current_farm.some>> ELSE <<>>)
           \o ParseFarmsLoop(toks, i + 1, None)
      [] OTHER -> ParseFarmsLoop(toks, i + 1, current_farm)

ParseFarms(toks) == ParseFarmsLoop(toks, 1, None)

\* --------------------------------------------------- backup/manager.rs
\* create_backup(savegame_path) at second `now`: every way the call can end.
\* The backup name is the formatted second, so `now` names the directory.
\* fs_extra's dir::copy with copy_inside copies the content of the source
\* into a target that does not exist, and the source directory itself into
\* a target that exists; it stops at the first file whose target exists.
CreateBackupOutcomes(tree, root, bks, now) ==
  LET there == now \in DOMAIN bks
      old == IF there THEN bks[now] ELSE EmptyTree
      pre == IF there THEN <<SaveDirName>> ELSE <<>>
      clash == {p \in DOMAIN tree : (pre \o p) \in DOMAIN old}
      free == (DOMAIN tree) \ clash
      With(S) == [t \in (DOMAIN bks) \cup {now} |->
                    IF t = now THEN CopyInto(old, tree, S, pre) ELSE bks[t]]
      Res(ok, r, b) == [ok |-> ok, root |-> r, backups |-> b, name |-> now]
  IN \* create_dir_all fails
     {Res(FALSE, root, bks)}
     \* dir::copy fails on its first file
     \cup {Res(FALSE, TRUE, With({}))}
     \cup (IF clash # {}
           \* a target file exists: the files listed before it are copied
           THEN {Res(FALSE, TRUE, With(S)) : S \in SUBSET free}
           \* the copy completes; dir_size then succeeds or fails
           ELSE {Res(ok, TRUE, With(DOMAIN tree)) : ok \in BOOLEAN})

\* ---------------------------------------------------------- the writers
\* How a writer call ends: Ok or Err, whether it replaced its file, and the
\* save directory it leaves.
WriterRes(ok, wrote, t) == [ok |-> ok, wrote |-> wrote, tree |-> t]

\* The tail every writer shares: fs::write to <file>.xml.tmp, then rename.
\* `out` is the output buffer.  No code reads a .tmp file, so what a failed
\* call leaves in it (a cut-short or a complete buffer) is kept as Residue.
Residue == [residue |-> TRUE]
CommitOutcomes(tree, file, out) ==
  LET tmp == <<WithTmpExtension(file)>>
  IN { WriterRes(FALSE, FALSE, tree),                     \* the .tmp is not created
       WriterRes(FALSE, FALSE, Put(tree, tmp, Residue)),  \* write or rename fails
       WriterRes(TRUE, TRUE, Put(Remove(tree, tmp), <<file>>, out)) }

\* A file cut short by a failed write does not parse.
Malformed(d) == "partial" \in DOMAIN d
\* read_to_string, then the commit of `out`, the patched document
WriterOutcomes(tree, file, out) ==
  IF ~Exists(tree, <<file>>) \/ Malformed(tree[<<file>>])
  THEN {WriterRes(FALSE, FALSE, tree)}
  ELSE CommitOutcomes(tree, file, out)

\* write_career_money
PatchCareer(money, d) == [toks |-> CareerOutput(d.toks, money)]
WriteCareerMoney(tree, money) ==
  WriterOutcomes(tree, CareerFile, PatchCareer(money, tree[<<CareerFile>>]))

\* write_farm_finances
PatchFarms(farm_id, money, loan, d) == [toks |-> FarmOutput(d.toks, farm_id, money, loan)]
WriteFarmFinances(tree, farm_id, money, loan) ==
  WriterOutcomes(tree, FarmsFile, PatchFarms(farm_id, money, loan, tree[<<FarmsFile>>]))

\* The other documents are kept as the one value the modelled change sets.
OneChange == <<[set |-> 1]>>
PatchDoc(chs, d) == IF chs = <<>> THEN d ELSE [d EXCEPT !.rev = chs[1].set]
WriteDocChanges(tree, file, chs) ==
  WriterOutcomes(tree, file, PatchDoc(chs, tree[<<file>>]))

\* write_sale_additions: nothing for an empty list; a new file written in
\* place when sales.xml is missing; otherwise the items spliced in.
NewSales(additions) == [rev |-> 0, items |-> Len(additions)]
AppendSales(additions, d) == [d EXCEPT !.items = @ + Len(additions)]
WriteSaleAdditions(tree, additions) ==
  IF additions = <<>> THEN {WriterRes(TRUE, FALSE, tree)}
  ELSE IF ~Exists(tree, <<SalesFile>>)
  THEN { WriterRes(FALSE, FALSE, tree),
         WriterRes(FALSE, FALSE,
                   Put(tree, <<SalesFile>>, [partial |-> NewSales(additions)])),
         WriterRes(TRUE, TRUE, Put(tree, <<SalesFile>>, NewSales(additions))) }
  ELSE WriterOutcomes(tree, SalesFile, AppendSales(additions, tree[<<SalesFile>>]))

\* ------------------------------------------------------------ the inputs
\* money and loan values a finance changeset carries: 7.5000004 and 3.0
MoneyInputs == {7 * Unit + 5000004}
LoanInputs == {3 * Unit}
FinanceInputs ==
  {[money |-> m, loan |-> l] : m \in {None} \cup {Some(v) : v \in MoneyInputs},
                               l \in {None} \cup {Some(v) : v \in LoanInputs}}

\* The Option fields of SavegameChanges.
SubDomains == {"finance", "vehicles", "sales", "sale_additions", "fields", "farmlands",
               "placeables", "missions", "collectibles", "contract_settings",
               "environment", "economy"}
NoChanges == [d \in SubDomains |-> None]
\* A changeset with the sub-domains P present, those of E with an empty list.
ChangeSet(P, E, fin) ==
  [d \in SubDomains |->
     IF d \notin P THEN None
     ELSE IF d = "finance" THEN Some(fin)
     ELSE IF d \in E THEN Some(<<>>) ELSE Some(OneChange)]

\* careerSavegame.xml in its two dialects, money 1.0
CareerAttrDoc ==
  [toks |-> << Decl, StartTok("careerSavegame", <<Attr("revision", IntStr(2))>>),
               EmptyTok("statistics", <<Attr("money", Fix6Str(1000000)),
                                        Attr("playTime", Fix6Str(2500000))>>),
               EndTok("careerSavegame") >>]
CareerChildDoc ==
  [toks |-> << Decl, StartTok("careerSavegame", <<Attr("revision", IntStr(2))>>),
               StartTok("statistics", <<>>),
               StartTok("money", <<>>), TextTok(IntStr(1)), EndTok("money"),
               StartTok("playTime", <<>>), TextTok(Fix6Str(2500000)), EndTok("playTime"),
               EndTok("statistics"), EndTok("careerSavegame") >>]
\* farms.xml: farm 1 (money 1.0, loan 2.0) and farm 2
FarmsDoc ==
  [toks |-> << Decl, StartTok("farms", <<>>),
               StartTok("farm", <<Attr("farmId", IntStr(1)), Attr("name", Raw("My farm")),
                                  Attr("loan", Fix6Str(2000000)),
                                  Attr("money", Fix6Str(1000000))>>),
               StartTok("players", <<>>),
               EmptyTok("player", <<Attr("lastNickname", Raw("Player"))>>),
               EndTok("players"), EndTok("farm"),
               StartTok("farm", <<Attr("farmId", IntStr(2)), Attr("name", Raw("Other")),
                                  Attr("loan", Fix6Str(0)), Attr("money", Fix6Str(4000000))>>),
               EndTok("farm"), EndTok("farms") >>]
PlainDoc == [rev |-> 0]
SalesDoc == [rev |-> 0, items |-> 2]

DocFiles == {VehiclesFile, FieldsFile, FarmlandFile, PlaceablesFile, MissionsFile,
             CollectiblesFile, ContractsFile, EnvironmentFile}
\* A save directory: the career dialect, and sales.xml there or not (the game
\* writes sales.xml only once the shop has listed a used vehicle).
InitialSave(career, withSales) ==
  [p \in {<<f>> : f \in {CareerFile, FarmsFile} \cup DocFiles
                         \cup (IF withSales THEN {SalesFile} ELSE {})} |->
     CASE p = <<CareerFile>> -> career
       [] p = <<FarmsFile>> -> FarmsDoc
       [] p = <<SalesFile>> -> SalesDoc
       [] OTHER -> PlainDoc]

\* The save directories a run starts on.
InitialSaves == {InitialSave(CareerAttrDoc, TRUE), InitialSave(CareerChildDoc, FALSE)}

\* ------------------------------------------------------------- the state
VARIABLES
  save,            \* the save directory, a tree
  backupsRoot,     \* whether <save>_backups exists
  backups,         \* the backup directories: second of creation -> tree
  clock,           \* the current second
  ops,             \* commands issued so far
  pc,              \* where save_changes stands
  changes,         \* its changeset
  backup_info,     \* the BackupInfo create_backup returned to it
  files_modified,  \* its files_modified vector
  errors,          \* its errors vector
  result,          \* what it returned
  pre,             \* history: the save directory when it was called
  preBackups,      \* history: the backup directories when it was called
  log,             \* history: the calls it made, in order
  written          \* history: the files its writers committed

vars == <<save, backupsRoot, backups, clock, ops, pc, changes, backup_info,
          files_modified, errors, result, pre, preBackups, log, written>>

fsVars == <<save, backupsRoot, backups>>
callVars == <<pc, changes, backup_info, files_modified, errors, result,
              pre, preBackups, log, written>>

NoResult == [kind |-> "none"]
OkResult(success, bp, fm, errs) ==
  [kind |-> "ok", success |-> success, backup_path |-> bp,
   files_modified |-> fm, errors |-> errs]
ErrResult(e) == [kind |-> "err", error |-> e]

Init ==
  /\ save \in InitialSaves
  /\ backupsRoot = FALSE
  /\ backups = EmptyTree
  /\ clock = 0
  /\ ops = 0
  /\ pc = "idle"
  /\ changes = NoChanges
  /\ backup_info = None
  /\ files_modified = <<>>
  /\ errors = <<>>
  /\ result = NoResult
  /\ pre = EmptyTree
  /\ preBackups = EmptyTree
  /\ log = <<>>
  /\ written = {}

\* A second passes.
Tick ==
  /\ clock < MaxClock
  /\ clock' = clock + 1
  /\ UNCHANGED <<fsVars, ops, callVars>>

\* the create_backup command, between save transactions
CreateBackupCmd ==
  /\ pc = "idle"
  /\ ops < MaxOps
  /\ ops' = ops + 1
  /\ \E r \in CreateBackupOutcomes(save, backupsRoot, backups, clock) :
       /\ backupsRoot' = r.root
       /\ backups' = r.backups
  /\ UNCHANGED <<save, clock, callVars>>

\* ------------------------------------------- commands/savegame.rs
\* Variant: a has_changes that answers true for every changeset.
HasChangesAlways(ch) == TRUE

\* has_changes of save_changes
HasChanges(ch) ==
  \/ IsSome(ch.finance) \/ IsSome(ch.vehicles) \/ IsSome(ch.sales)
  \/ IsSome(ch.sale_additions) \/ IsSome(ch.fields) \/ IsSome(ch.farmlands)
  \/ IsSome(ch.placeables) \/ IsSome(ch.missions) \/ IsSome(ch.collectibles)
  \/ IsSome(ch.contract_settings) \/ IsSome(ch.environment)

\* The writer calls of save_changes, in the order of its text.
StageOrder == << "career", "farmMoney", "farmLoan", "vehicles", "sales", "saleAdditions",
                 "fields", "farmlands", "placeables", "missions", "collectibles",
                 "contract", "environment" >>
StageIndex(st) == CHOOSE i \in 1..Len(StageOrder) : StageOrder[i] = st
\* the `if let Some(..)` that guards each call
StagePresent(ch, st) ==
  CASE st \in {"career", "farmMoney"} -> IsSome(ch.finance) /\ IsSome(ch.finance.some.money)
    [] st = "farmLoan" -> IsSome(ch.finance) /\ IsSome(ch.finance.some.loan)
    [] st = "vehicles" -> IsSome(ch.vehicles)
    [] st = "sales" -> IsSome(ch.sales)
    [] st = "saleAdditions" -> IsSome(ch.sale_additions)
    [] st = "fields" -> IsSome(ch.fields)
    [] st = "farmlands" -> IsSome(ch.farmlands)
    [] st = "placeables" -> IsSome(ch.placeables)
    [] st = "missions" -> IsSome(ch.missions)
    [] st = "collectibles" -> IsSome(ch.collectibles)
    [] st = "contract" -> IsSome(ch.contract_settings)
    [] st = "environment" -> IsSome(ch.environment)
\* the next writer call after the k-th, or the final aggregation
NextStage(ch, k) ==
  LET later == {j \in (k + 1)..Len(StageOrder) : StagePresent(ch, StageOrder[j])}
  IN IF later = {} THEN "finish"
     ELSE StageOrder[CHOOSE j \in later : \A i \in later : j <= i]

\* history: one call made by save_changes and whether it returned Ok
Call(name, ok) == [call |-> name, ok |-> ok]
Contains(seq, x) == \E i \in 1..Len(seq) : seq[i] = x
FileWriteError(file) == [key |-> "errors.fileWriteError", file |-> file]

\* Variant: a save_changes that goes to its writers without a backup.
SaveBeginWithoutBackup(ch) ==
  /\ pc = "idle"
  /\ ops < MaxOps
  /\ ops' = ops + 1
  /\ changes' = ch
  /\ pre' = save
  /\ preBackups' = backups
  /\ log' = <<>>
  /\ written' = {}
  /\ files_modified' = <<>>
  /\ errors' = <<>>
  /\ backup_info' = None
  /\ IF ~Exists(save, <<CareerFile>>)
     THEN pc' = "done" /\ result' = ErrResult("SavegameNotFound")
     ELSE IF ~HasChanges(ch)
     THEN pc' = "done" /\ result' = OkResult(TRUE, None, <<>>, <<>>)
     ELSE pc' = NextStage(ch, 0) /\ result' = NoResult
  /\ UNCHANGED <<fsVars, clock>>

\* save_changes up to its backup: validation and the has_changes test
SaveBegin(ch) ==
  /\ pc = "idle"
  /\ ops < MaxOps
  /\ ops' = ops + 1
  /\ changes' = ch
  /\ pre' = save
  /\ preBackups' = backups
  /\ log' = <<>>
  /\ written' = {}
  /\ files_modified' = <<>>
  /\ errors' = <<>>
  /\ backup_info' = None
  /\ IF ~Exists(save, <<CareerFile>>)
     THEN pc' = "done" /\ result' = ErrResult("SavegameNotFound")
     ELSE IF ~HasChanges(ch)
     THEN pc' = "done" /\ result' = OkResult(TRUE, None, <<>>, <<>>)
     ELSE pc' = "backup" /\ result' = NoResult
  /\ UNCHANGED <<fsVars, clock>>

\* Variant: a save_changes without the `?` on create_backup, going on to
\* its writers whatever the backup returned.
SaveBackupIgnoringFailure ==
  /\ pc = "backup"
  /\ \E r \in CreateBackupOutcomes(save, backupsRoot, backups, clock) :
       /\ log' = Append(log, Call("create_backup", r.ok))
       /\ backupsRoot' = r.root
       /\ backups' = r.backups
       /\ pc' = NextStage(changes, 0)
       /\ backup_info' = IF r.ok THEN Some(r.name) ELSE backup_info
       /\ result' = result
  /\ UNCHANGED <<save, clock, ops, changes, files_modified, errors, pre, preBackups, written>>

\* let backup_info = backup_manager::create_backup(&save_path)?;
SaveBackup ==
  /\ pc = "backup"
  /\ \E r \in CreateBackupOutcomes(save, backupsRoot, backups, clock) :
       /\ log' = Append(log, Call("create_backup", r.ok))
       /\ backupsRoot' = r.root
       /\ backups' = r.backups
       /\ IF r.ok
          THEN pc' = NextStage(changes, 0) /\ backup_info' = Some(r.name)
               /\ result' = result
          ELSE pc' = "done" /\ backup_info' = backup_info
               /\ result' = ErrResult("BackupError")
  /\ UNCHANGED <<save, clock, ops, changes, files_modified, errors, pre, preBackups, written>>

\* Variant: a writer call whose failure is propagated with `?`.
WriterCallAborting(st, file, outcomes, checked) ==
  /\ pc = st
  /\ \E r \in outcomes :
       /\ log' = Append(log, Call(st, r.ok))
       /\ save' = r.tree
       /\ written' = IF r.wrote THEN written \cup {file} ELSE written
       /\ IF r.ok
          THEN /\ files_modified' = IF checked /\ Contains(files_modified, file)
                                    THEN files_modified
                                    ELSE Append(files_modified, file)
               /\ pc' = NextStage(changes, StageIndex(st))
               /\ result' = result
          ELSE /\ files_modified' = files_modified
               /\ pc' = "done"
               /\ result' = ErrResult("IoError")
       /\ errors' = errors
  /\ UNCHANGED <<backupsRoot, backups, clock, ops, changes, backup_info,
                 pre, preBackups>>

\* Variant: a writer call whose Ok arm never tests files_modified.contains.
WriterCallUnchecked(st, file, outcomes, checked) ==
  /\ pc = st
  /\ pc' = NextStage(changes, StageIndex(st))
  /\ \E r \in outcomes :
       /\ log' = Append(log, Call(st, r.ok))
       /\ save' = r.tree
       /\ written' = IF r.wrote THEN written \cup {file} ELSE written
       /\ IF r.ok
          THEN /\ files_modified' = Append(files_modified, file)
               /\ errors' = errors
          ELSE /\ files_modified' = files_modified
               /\ errors' = Append(errors, FileWriteError(file))
  /\ UNCHANGED <<backupsRoot, backups, clock, ops, changes, backup_info, result,
                 pre, preBackups>>

\* One writer call of save_changes and the match on its result; `checked`
\* is whether the Ok arm tests files_modified.contains first.
WriterCall(st, file, outcomes, checked) ==
  /\ pc = st
  /\ pc' = NextStage(changes, StageIndex(st))
  /\ \E r \in outcomes :
       /\ log' = Append(log, Call(st, r.ok))
       /\ save' = r.tree
       /\ written' = IF r.wrote THEN written \cup {file} ELSE written
       /\ IF r.ok
          THEN /\ files_modified' = IF checked /\ Contains(files_modified, file)
                                    THEN files_modified
                                    ELSE Append(files_modified, file)
               /\ errors' = errors
          ELSE /\ files_modified' = files_modified
               /\ errors' = Append(errors, FileWriteError(file))
  /\ UNCHANGED <<backupsRoot, backups, clock, ops, changes, backup_info, result,
                 pre, preBackups>>

SaveCareerMoney ==
  WriterCall("career", CareerFile,
             WriteCareerMoney(save, changes.finance.some.money.some), FALSE)
SaveFarmMoney ==
  WriterCall("farmMoney", FarmsFile,
             WriteFarmFinances(save, 1, changes.finance.some.money, None), TRUE)
SaveFarmLoan ==
  WriterCall("farmLoan", FarmsFile,
             WriteFarmFinances(save, 1, None, changes.finance.some.loan), TRUE)
SaveVehicles ==
  WriterCall("vehicles", VehiclesFile,
             WriteDocChanges(save, VehiclesFile, changes.vehicles.some), TRUE)
SaveSales ==
  WriterCall("sales", SalesFile,
             WriteDocChanges(save, SalesFile, changes.sales.some), TRUE)
SaveSaleAdditions ==
  WriterCall("saleAdditions", SalesFile,
             WriteSaleAdditions(save, changes.sale_additions.some), TRUE)
SaveFields ==
  WriterCall("fields", FieldsFile,
             WriteDocChanges(save, FieldsFile, changes.fields.some), TRUE)
SaveFarmlands ==
  WriterCall("farmlands", FarmlandFile,
             WriteDocChanges(save, FarmlandFile, changes.farmlands.some), TRUE)
SavePlaceables ==
  WriterCall("placeables", PlaceablesFile,
             WriteDocChanges(save, PlaceablesFile, changes.placeables.some), TRUE)
SaveMissions ==
  WriterCall("missions", MissionsFile,
             WriteDocChanges(save, MissionsFile, changes.missions.some), TRUE)
SaveCollectibles ==
  WriterCall("collectibles", CollectiblesFile,
             WriteDocChanges(save, CollectiblesFile, changes.collectibles.some), TRUE)
SaveContractSettings ==
  WriterCall("contract", ContractsFile,
             WriteDocChanges(save, ContractsFile, changes.contract_settings.some), TRUE)
SaveEnvironment ==
  WriterCall("environment", EnvironmentFile,
             WriteDocChanges(save, EnvironmentFile, changes.environment.some), TRUE)

\* Variant: a final aggregation that reports success whatever the errors.
SaveFinishAlwaysSuccess ==
  /\ pc = "finish"
  /\ pc' = "done"
  /\ result' = OkResult(TRUE, backup_info, files_modified, errors)
  /\ UNCHANGED <<fsVars, clock, ops, changes, backup_info, files_modified, errors,
                 pre, preBackups, log, written>>

\* Ok(SaveResult { success: errors.is_empty(), .. })
SaveFinish ==
  /\ pc = "finish"
  /\ pc' = "done"
  /\ result' = OkResult(errors = <<>>, backup_info, files_modified, errors)
  /\ UNCHANGED <<fsVars, clock, ops, changes, backup_info, files_modified, errors,
                 pre, preBackups, log, written>>

\* The changesets a transaction is called with.  save_changes never reads
\* the economy field, which stays None.
ChangeSets ==
  UNION {{ChangeSet(P, E, fin) :
            E \in SUBSET (P \ {"finance"}),
            fin \in IF "finance" \in P THEN FinanceInputs
                    ELSE {[money |-> None, loan |-> None]}} :
         P \in {Q \in SUBSET (SubDomains \ {"economy"}) : Cardinality(Q) <= MaxPresent}}

SaveChanges == \E ch \in ChangeSets : SaveBegin(ch)

Next ==
  \/ SaveChanges
  \/ SaveBackup
  \/ SaveCareerMoney
  \/ SaveFarmMoney
  \/ SaveFarmLoan
  \/ SaveVehicles
  \/ SaveSales
  \/ SaveSaleAdditions
  \/ SaveFields
  \/ SaveFarmlands
  \/ SavePlaceables
  \/ SaveMissions
  \/ SaveCollectibles
  \/ SaveContractSettings
  \/ SaveEnvironment
  \/ SaveFinish

\* One save transaction on a save directory, from its call to its return.
Spec == Init /\ [][Next]_vars

\* --------------------------------------------------------------- sessions
\* save_changes has returned; the next command can be issued.
SaveReturn ==
  /\ pc = "done"
  /\ pc' = "idle"
  /\ UNCHANGED <<fsVars, clock, ops, changes, backup_info, files_modified, errors, result,
                 pre, preBackups, log, written>>

\* The changesets of a session: none, the money, one vehicle change.
SessionChangeSets ==
  { NoChanges,
    ChangeSet({"finance"}, {}, [money |-> Some(7 * Unit), loan |-> None]),
    ChangeSet({"vehicles"}, {}, [money |-> None, loan |-> None]) }

SaveChangesInSession == \E ch \in SessionChangeSets : SaveBegin(ch)

NextSession ==
  \/ Tick
  \/ CreateBackupCmd
  \/ SaveChangesInSession
  \/ SaveBackup
  \/ SaveCareerMoney
  \/ SaveFarmMoney
  \/ SaveVehicles
  \/ SaveFinish
  \/ SaveReturn

\* A session of commands on one save directory, the clock running.
SpecSession == Init /\ [][NextSession]_vars

\* ----------------------------------------------------------- properties
\* The sub-domains save_changes has a writer call for.
WrittenSubDomains == SubDomains \ {"economy"}
\* A present sub-domain that asks for nothing: an empty list, or a finance
\* changeset with neither money nor loan.
IsEmptyChange(d, v) ==
  IF d = "finance" THEN v.money = None /\ v.loan = None ELSE v = <<>>
SomePresent(ch) == \E d \in WrittenSubDomains : IsSome(ch[d])
AllAbsent(ch) == \A d \in WrittenSubDomains : ch[d] = None
AllEmpty(ch) ==
  \A d \in WrittenSubDomains : IsSome(ch[d]) => IsEmptyChange(d, ch[d].some)
SomeNonEmpty(ch) == ~AllEmpty(ch)
\* save_changes got past validate_savegame_path
Validated == result # ErrResult("SavegameNotFound")

\* C1: in a save_changes call with a sub-domain present, create_backup is
\* called exactly once, as the first call; a writer is called only after it
\* returned Ok, and the save directory is as it was until then.
C1_BackupOnceBeforeWriters ==
  /\ \A i \in 1..Len(log) : (log[i].call = "create_backup") <=> (i = 1)
  /\ Len(log) > 1 => log[1].ok
  /\ Len(log) <= 1 => (pc = "idle" \/ (save = pre /\ written = {}))
  /\ (pc \notin {"idle", "backup"} /\ Validated /\ SomePresent(changes))
       => Len(log) >= 1
\* a call that made its backup and then called two writers, one committing
C1_Witness ==
  /\ pc = "done"
  /\ Len(log) >= 3
  /\ log[1] = Call("create_backup", TRUE)
  /\ written # {}

\* C2: a save_changes call with a non-empty sub-domain that returns Ok has
\* made exactly one new backup directory, equal to the save directory as it
\* was when the call was made, and has left the older backups alone; in any
\* session, two calls in the same second included.
C2_OneNewBackupOfPreState ==
  (pc = "done" /\ result.kind = "ok" /\ SomeNonEmpty(changes)) =>
     \E t \in DOMAIN backups \ DOMAIN preBackups :
        /\ DOMAIN backups = DOMAIN preBackups \cup {t}
        /\ backups[t] = pre
        /\ \A u \in DOMAIN preBackups : backups[u] = preBackups[u]

\* C3: save_changes with every sub-domain None returns success = true,
\* backup_path = None, no files_modified and no errors; it calls neither
\* create_backup nor a writer, and leaves the save directory and the backups
\* as they were.
C3_NoChangesIsNoOp ==
  (pc = "done" /\ Validated /\ AllAbsent(changes)) =>
     /\ result = OkResult(TRUE, None, <<>>, <<>>)
     /\ log = <<>>
     /\ save = pre
     /\ backups = preBackups
C3_Witness ==
  /\ pc = "done"
  /\ ops > 0
  /\ AllAbsent(changes)
  /\ result.kind = "ok"

\* C4: a save_changes call whose present sub-domains are all empty makes no
\* backup and modifies no file, like a call with every sub-domain absent.
C4_EmptyChangesMakeNoBackup ==
  (pc = "done" /\ Validated /\ AllEmpty(changes)) =>
     /\ log = <<>>
     /\ backups = preBackups
     /\ save = pre
     /\ result.kind = "ok" /\ result.backup_path = None
     /\ result.files_modified = <<>>

\* C5: when create_backup fails in save_changes, the call returns Err, no
\* writer is called and the save directory is as it was.
C5_BackupFailureAborts ==
  (pc # "idle" /\ Len(log) >= 1 /\ log[1] = Call("create_backup", FALSE)) =>
     /\ pc = "done"
     /\ result.kind = "err"
     /\ Len(log) = 1
     /\ save = pre
     /\ written = {}
\* the backup failed after it had put a directory among the backups
C5_Witness ==
  /\ pc = "done"
  /\ log = <<Call("create_backup", FALSE)>>
  /\ result = ErrResult("BackupError")
  /\ backups # preBackups

\* The file each writer call of save_changes names in its result.
StageFile(st) ==
  CASE st = "career" -> CareerFile
    [] st \in {"farmMoney", "farmLoan"} -> FarmsFile
    [] st = "vehicles" -> VehiclesFile
    [] st \in {"sales", "saleAdditions"} -> SalesFile
    [] st = "fields" -> FieldsFile
    [] st = "farmlands" -> FarmlandFile
    [] st = "placeables" -> PlaceablesFile
    [] st = "missions" -> MissionsFile
    [] st = "collectibles" -> CollectiblesFile
    [] st = "contract" -> ContractsFile
    [] st = "environment" -> EnvironmentFile
\* the writer calls a changeset asks for, in order
PresentStages(ch) ==
  LET Present(st) == StagePresent(ch, st) IN SelectSeq(StageOrder, Present)
\* the writer calls made so far
WriterLog == IF log = <<>> THEN <<>> ELSE Tail(log)
FailedCalls ==
  LET Failed(e) == ~e.ok IN SelectSeq(WriterLog, Failed)
NoDuplicates(seq) == \A i, j \in 1..Len(seq) : seq[i] = seq[j] => i = j

\* C6: once its backup is made, save_changes returns Ok whatever its
\* writers return: every writer the changeset asks for is called, in order,
\* each failed call is one error entry naming the call's file, and the file
\* of each call that succeeded is in files_modified.  With the career money
\* written and the farm money failed, careerSavegame.xml is modified,
\* farms.xml is an error and success is false.
C6_WriterFailureIsRecorded ==
  (pc = "done" /\ Len(log) >= 1 /\ log[1] = Call("create_backup", TRUE)) =>
     /\ result.kind = "ok"
     /\ [i \in 1..Len(WriterLog) |-> WriterLog[i].call] = PresentStages(changes)
     /\ result.errors =
          [k \in 1..Len(FailedCalls) |-> FileWriteError(StageFile(FailedCalls[k].call))]
     /\ \A i \in 1..Len(WriterLog) :
          WriterLog[i].ok => Contains(result.files_modified, StageFile(WriterLog[i].call))
     /\ (Contains(WriterLog, Call("career", TRUE))
           /\ Contains(WriterLog, Call("farmMoney", FALSE)))
          => /\ Contains(result.files_modified, CareerFile)
             /\ Contains(result.errors, FileWriteError(FarmsFile))
             /\ ~result.success
\* the career money written, the farm money failed, the farm loan written
C6_Witness ==
  /\ pc = "done"
  /\ WriterLog = <<Call("career", TRUE), Call("farmMoney", FALSE), Call("farmLoan", TRUE)>>
  /\ result.kind = "ok"
  /\ result.files_modified = <<CareerFile, FarmsFile>>

\* C7: in every SaveResult save_changes returns, success is true exactly
\* when errors is empty.
C7_SuccessIffNoErrors ==
  result.kind = "ok" => (result.success <=> result.errors = <<>>)
\* a result with a file modified and an error
C7_Witness ==
  /\ pc = "done"
  /\ result.kind = "ok"
  /\ result.errors # <<>>
  /\ result.files_modified # <<>>
  /\ ~result.success

\* C8: files_modified never holds a file name twice, whatever is present
\* and whichever writers fail.
C8_NoDuplicateFiles ==
  /\ NoDuplicates(files_modified)
  /\ result.kind = "ok" => NoDuplicates(result.files_modified)
\* money and loan both written to farms.xml
C8_Witness ==
  /\ pc = "done"
  /\ Contains(WriterLog, Call("farmMoney", TRUE))
  /\ Contains(WriterLog, Call("farmLoan", TRUE))
  /\ result.kind = "ok"
  /\ Contains(result.files_modified, FarmsFile)

\* C9: every file in files_modified is one a writer of this call committed.
C9_ModifiedFilesWereWritten ==
  (pc = "done" /\ result.kind = "ok") =>
     \A i \in 1..Len(result.files_modified) : result.files_modified[i] \in written

\* What a value is after its six-decimal rendering.
SixDecimals(v) == ParseF64(FormatFix6(v))
\* farm 1 as parse_farms reports it
Farm1(tree) ==
  LET farms == ParseFarms(tree[<<FarmsFile>>].toks)
  IN farms[CHOOSE i \in 1..Len(farms) : farms[i].farm_id = 1]

\* C10: after save_changes with finance.money = m (and finance.loan = l)
\* returns success = true, careerSavegame.xml and farm 1 of farms.xml both
\* read back m (and farm 1 reads back l), to six decimals, in either
\* dialect of the career document.
C10_FinanceReadsBack ==
  (pc = "done" /\ result.kind = "ok" /\ result.success /\ IsSome(changes.finance)) =>
     LET fin == changes.finance.some IN
       /\ IsSome(fin.money) =>
            /\ ParseCareerMoney(save[<<CareerFile>>].toks) = SixDecimals(fin.money.some)
            /\ Farm1(save).money = SixDecimals(fin.money.some)
       /\ IsSome(fin.loan) => Farm1(save).loan = SixDecimals(fin.loan.some)

\* ------------------------------------------------ properties of the commit
\* the documents of the save directory, and the temporaries beside them
IsXmlFile(p) == Len(p) = 1 /\ p[1].ext = "xml"
IsTmpFile(p) == Len(p) = 1 /\ p[1].ext = "xml.tmp"

\* C11: at every instant of a writer call and after it, each <file>.xml of
\* the save directory is whole: its previous content or the new content,
\* never one cut short; sales.xml created by write_sale_additions included.
C11_DocumentsAreWhole ==
  \A p \in DOMAIN save : IsXmlFile(p) => ~Malformed(save[p])

\* C12: once a writer call has returned, Ok or Err, no <file>.xml.tmp is in
\* the save directory.
C12_NoTmpLeftBehind ==
  \A p \in DOMAIN save : ~IsTmpFile(p)

\* ------------------------------------------- the writers, token by token
\* Option<f64> as the {:.6} text, Option<u8|u32> as the to_string text
OptFix6(o) == IF IsSome(o) THEN Some(FormatFix6(o.some)) ELSE None
OptInt(o) == IF IsSome(o) THEN Some(IntStr(o.some)) ELSE None
\* minutes to seconds, then {:.6}
OptSecondsFix6(o) == IF IsSome(o) THEN Some(FormatFix6(o.some * 60)) ELSE None
\* The guarded arms of a patch routine's match: from pairs <<key, Option of
\* the new text>>, the keys whose field is Some, with their new text.
NewValues(S) ==
  [k \in {p[1] : p \in {q \in S : IsSome(q[2])}} |->
     (CHOOSE p \in S : p[1] = k)[2].some]
\* change_map.get(k) of the HashMap collected from the changes by `field`:
\* of two changes with one key the later one stays
Lookup(chs, field, k) ==
  LET hits == {i \in 1..Len(chs) : chs[i][field] = k}
  IN IF hits = {} THEN None
     ELSE Some(chs[CHOOSE i \in hits : \A j \in hits : j <= i])

\* ---------------------------------------------------- writers/vehicle.rs
\* property_state_to_u8
PropertyStateToU8(state) ==
  CASE state = "Owned" -> IntStr(1)
    [] state = "Rented" -> IntStr(2)
    [] OTHER -> IntStr(0)
OptPropertyState(o) == IF IsSome(o) THEN Some(PropertyStateToU8(o.some)) ELSE None

\* patch_vehicle_start
PatchVehicleStart(e, change) ==
  StartTok("vehicle",
    PatchAttrs(e.attrs,
      NewValues({ <<"age", OptFix6(change.age)>>,
                  <<"price", OptFix6(change.price)>>,
                  <<"farmId", OptInt(change.farm_id)>>,
                  <<"propertyState", OptPropertyState(change.property_state)>>,
                  <<"operatingTime", OptSecondsFix6(change.operating_time)>> })))

\* patch_fill_unit
PatchFillUnit(e, fc) ==
  EmptyTok("unit",
    PatchAttrs(e.attrs, NewValues({<<"fillLevel", Some(FormatFix6(fc.fill_level))>>})))

\* fill_changes.iter().find(|f| f.index == unit_index): its place, 0 for none
FindFillUnit(fills, e) ==
  LET hits == {i \in 1..Len(fills) : AttrValue(e.attrs, "index") = IntStr(fills[i].index)}
  IN IF hits = {} THEN 0 ELSE CHOOSE i \in hits : \A j \in hits : i <= j

\* the event loop of write_vehicle_changes over the tokens from position i
\* on; `fills` is current_fill_changes
RECURSIVE VehicleLoop(_, _, _, _, _, _, _, _)
VehicleLoop(toks, i, chs, current_vehicle_id, skip, skip_depth, in_fill_unit, fills) ==
  IF i > Len(toks) THEN <<>>
  ELSE LET e == toks[i] IN
    CASE e.kind = "start" ->
           IF skip
           THEN VehicleLoop(toks, i + 1, chs, current_vehicle_id, skip, skip_depth + 1,
                            in_fill_unit, fills)
           ELSE IF e.tag = "vehicle"
           THEN LET id == AttrValue(e.attrs, "id")
                    change == Lookup(chs, "unique_id", id)
                IN IF IsSome(change)
                   THEN IF change.some.delete
                        THEN VehicleLoop(toks, i + 1, chs, Some(id), TRUE, 1,
                                         in_fill_unit, fills)
                        ELSE <<PatchVehicleStart(e, change.some)>>
                             \o VehicleLoop(toks, i + 1, chs, Some(id), skip, skip_depth,
                                            in_fill_unit, change.some.fill_units)
                   ELSE <<e>> \o VehicleLoop(toks, i + 1, chs, None, skip, skip_depth,
                                             in_fill_unit, None)
           ELSE IF e.tag = "fillUnit" /\ IsSome(current_vehicle_id)
           THEN <<e>> \o VehicleLoop(toks, i + 1, chs, current_vehicle_id, skip, skip_depth,
                                     TRUE, fills)
           ELSE <<e>> \o VehicleLoop(toks, i + 1, chs, current_vehicle_id, skip, skip_depth,
                                     in_fill_unit, fills)
      [] e.kind = "empty" ->
           IF skip
           THEN VehicleLoop(toks, i + 1, chs, current_vehicle_id, skip, skip_depth,
                            in_fill_unit, fills)
           ELSE (IF e.tag = "unit" /\ in_fill_unit /\ IsSome(fills)
                    /\ FindFillUnit(fills.some, e) # 0
                 THEN <<PatchFillUnit(e, fills.some[FindFillUnit(fills.some, e)])>>
                 ELSE <<e>>)
                \o VehicleLoop(toks, i + 1, chs, current_vehicle_id, skip, skip_depth,
                               in_fill_unit, fills)
      [] e.kind = "end" ->
           IF skip
           THEN IF e.tag = "vehicle" /\ skip_depth - 1 = 0
                THEN VehicleLoop(toks, i + 1, chs, None, FALSE, 0, in_fill_unit, fills)
                ELSE VehicleLoop(toks, i + 1, chs, current_vehicle_id, skip, skip_depth - 1,
                                 in_fill_unit, fills)
           ELSE IF e.tag = "vehicle"
           THEN <<e>> \o VehicleLoop(toks, i + 1, chs, None, skip, skip_depth,
                                     in_fill_unit, None)
           ELSE IF e.tag = "fillUnit"
           THEN <<e>> \o VehicleLoop(toks, i + 1, chs, current_vehicle_id, skip, skip_depth,
                                     FALSE, fills)
           ELSE <<e>> \o VehicleLoop(toks, i + 1, chs, current_vehicle_id, skip, skip_depth,
                                     in_fill_unit, fills)
      [] OTHER ->
           (IF skip THEN <<>> ELSE <<e>>)
           \o VehicleLoop(toks, i + 1, chs, current_vehicle_id, skip, skip_depth,
                          in_fill_unit, fills)

\* A variant that looks a unit up in the fill units of every change of the
\* call, whichever vehicle the unit is in.
RECURSIVE AllFillUnits(_)
AllFillUnits(chs) ==
  IF chs = <<>> THEN <<>>
  ELSE (IF IsSome(Head(chs).fill_units) THEN Head(chs).fill_units.some ELSE <<>>)
       \o AllFillUnits(Tail(chs))
VehicleOutput_AnyVehicle(toks, chs) ==
  LET out == VehicleLoop(toks, 1, chs, None, FALSE, 0, FALSE, None)
      fills == AllFillUnits(chs)
  IN [i \in 1..Len(out) |->
        IF out[i].kind = "empty" /\ out[i].tag = "unit" /\ FindFillUnit(fills, out[i]) # 0
        THEN PatchFillUnit(out[i], fills[FindFillUnit(fills, out[i])])
        ELSE out[i]]

\* the output buffer of write_vehicle_changes
VehicleOutput(toks, chs) == VehicleLoop(toks, 1, chs, None, FALSE, 0, FALSE, None)

\* ------------------------------------------------------- writers/sale.rs
\* patch_item_start
PatchItemStart(e, change) ==
  StartTok("item",
    PatchAttrs(e.attrs,
      NewValues({ <<"price", OptInt(change.price)>>,
                  <<"damage", OptFix6(change.damage)>>,
                  <<"wear", OptFix6(change.wear)>>,
                  <<"age", OptInt(change.age)>>,
                  <<"operatingTime", OptSecondsFix6(change.operating_time)>>,
                  <<"timeLeft", OptInt(change.time_left)>> })))

\* the event loop of write_sale_changes
RECURSIVE SaleLoop(_, _, _, _, _, _)
SaleLoop(toks, i, chs, item_index, skip, skip_depth) ==
  IF i > Len(toks) THEN <<>>
  ELSE LET e == toks[i] IN
    CASE e.kind = "start" ->
           IF skip
           THEN SaleLoop(toks, i + 1, chs, item_index, skip, skip_depth + 1)
           ELSE IF e.tag = "item"
           THEN LET change == Lookup(chs, "index", item_index)
                IN IF IsSome(change)
                   THEN IF change.some.delete
                        THEN SaleLoop(toks, i + 1, chs, item_index + 1, TRUE, 1)
                        ELSE <<PatchItemStart(e, change.some)>>
                             \o SaleLoop(toks, i + 1, chs, item_index + 1, skip, skip_depth)
                   ELSE <<e>> \o SaleLoop(toks, i + 1, chs, item_index + 1, skip, skip_depth)
           ELSE <<e>> \o SaleLoop(toks, i + 1, chs, item_index, skip, skip_depth)
      [] e.kind = "end" ->
           IF skip
           THEN IF e.tag = "item" /\ skip_depth - 1 = 0
                THEN SaleLoop(toks, i + 1, chs, item_index, FALSE, 0)
                ELSE SaleLoop(toks, i + 1, chs, item_index, skip, skip_depth - 1)
           ELSE <<e>> \o SaleLoop(toks, i + 1, chs, item_index, skip, skip_depth)
      [] OTHER ->
           (IF skip THEN <<>> ELSE <<e>>)
           \o SaleLoop(toks, i + 1, chs, item_index, skip, skip_depth)

\* the output buffer of write_sale_changes
SaleOutput(toks, chs) == SaleLoop(toks, 1, chs, 0, FALSE, 0)

\* format_sale_item: the indent, a self-closing item, the line end; the file
\* name goes into the text as it is
Indent == TextTok(Raw("    "))
LineEnd == TextTok(Raw("\n"))
FormatSaleItem(addition) ==
  << Indent,
     EmptyTok("item",
       << Attr("xmlFilename", addition.xml_filename),
          Attr("age", IntStr(addition.age)),
          Attr("price", IntStr(addition.price)),
          Attr("damage", FormatFix6(addition.damage)),
          Attr("wear", FormatFix6(addition.wear)),
          Attr("operatingTime", FormatFix6(addition.operating_time * 60)),
          Attr("timeLeft", IntStr(addition.time_left)),
          Attr("isGenerated", Raw("false")) >>),
     LineEnd >>

RECURSIVE FormatSaleItems(_)
FormatSaleItems(additions) ==
  IF additions = <<>> THEN <<>>
  ELSE FormatSaleItem(Head(additions)) \o FormatSaleItems(Tail(additions))

\* content.rfind("</sales>"): the place of the last end tag of that name, 0
\* when the text has none
RFindSalesEnd(toks) ==
  LET hits == {i \in 1..Len(toks) : toks[i] = EndTok("sales")}
  IN IF hits = {} THEN 0 ELSE CHOOSE i \in hits : \A j \in hits : j <= i

\* a variant that puts the new items behind the closing tag
SpliceSaleItems_AfterEnd(toks, additions) ==
  LET insert_pos == RFindSalesEnd(toks)
  IN SubSeq(toks, 1, insert_pos) \o FormatSaleItems(additions)
     \o SubSeq(toks, insert_pos + 1, Len(toks))

\* the text write_sale_additions makes of an existing sales.xml
SpliceSaleItems(toks, additions) ==
  LET insert_pos == RFindSalesEnd(toks)
  IN SubSeq(toks, 1, insert_pos - 1) \o FormatSaleItems(additions)
     \o SubSeq(toks, insert_pos, Len(toks))

\* the text it writes when there is no sales.xml
SalesFromScratch(additions) ==
  <<Decl, LineEnd, StartTok("sales", <<>>), LineEnd>> \o FormatSaleItems(additions)
  \o <<EndTok("sales"), LineEnd>>

\* ------------------------------------------------------- parsers/sale.rs
\* str::parse::<u32>().unwrap_or(0)
ParseU32(s) == IF s.fmt = "int" /\ s.n >= 0 THEN s.n ELSE 0

\* the SaleItem read from an item tag
SaleItemOf(e, index) ==
  [index |-> index,
   xml_filename |-> AttrValue(e.attrs, "xmlFilename"),
   age |-> ParseU32(AttrValue(e.attrs, "age")),
   price |-> ParseU32(AttrValue(e.attrs, "price")),
   damage |-> AttrF64(e.attrs, "damage"),
   wear |-> AttrF64(e.attrs, "wear"),
   operating_time |-> AttrF64(e.attrs, "operatingTime") \div 60,
   time_left |-> ParseU32(AttrValue(e.attrs, "timeLeft")),
   is_generated |-> (AttrValue(e.attrs, "isGenerated") = Raw("true")),
   bought_configurations |-> <<>>]

\* the event loop of parse_sales: the items in the order they are pushed
RECURSIVE ParseSalesLoop(_, _, _, _, _)
ParseSalesLoop(toks, i, index, current_item, in_bought_configs) ==
  IF i > Len(toks) THEN <<>>
  ELSE LET e == toks[i] IN
    CASE e.kind = "start" /\ e.tag = "item" ->
           ParseSalesLoop(toks, i + 1, index + 1, Some(SaleItemOf(e, index)),
                          in_bought_configs)
      [] e.kind = "start" /\ e.tag = "boughtConfigurations" ->
           ParseSalesLoop(toks, i + 1, index, current_item, TRUE)
      [] e.kind = "empty" /\ e.tag = "item" ->
           <<SaleItemOf(e, index)>>
           \o ParseSalesLoop(toks, i + 1, index + 1, current_item, in_bought_configs)
      [] e.kind = "empty" /\ e.tag = "boughtConfiguration" /\ IsSome(current_item)
         /\ in_bought_configs ->
           ParseSalesLoop(toks, i + 1, index,
             Some([current_item.some EXCEPT !.bought_configurations =
                     Append(@, [name |-> AttrValue(e.attrs, "name"),
                                id |-> AttrValue(e.attrs, "id")])]),
             in_bought_configs)
      [] e.kind = "end" /\ e.tag = "item" ->
           (IF IsSome(current_item) THEN <<current_item.some>> ELSE <<>>)
           \o ParseSalesLoop(toks, i + 1, index, None, in_bought_configs)
      [] e.kind = "end" /\ e.tag = "boughtConfigurations" ->
           ParseSalesLoop(toks, i + 1, index, current_item, FALSE)
      [] OTHER -> ParseSalesLoop(toks, i + 1, index, current_item, in_bought_configs)

\* parse_sales of a well-formed text
ParseSales(toks) == ParseSalesLoop(toks, 1, 0, None, FALSE)

\* ---------------------------------------------------- writers/economy.rs
OptBool(o) == IF IsSome(o) THEN Some(Raw(IF o.some THEN "true" ELSE "false")) ELSE None

\* patch_great_demand
PatchGreatDemandAttrs(e, change) ==
  PatchAttrs(e.attrs,
    NewValues({ <<"fillTypeName", change.fill_type_name>>,
                <<"demandMultiplier", OptFix6(change.demand_multiplier)>>,
                <<"demandStartDay", OptInt(change.demand_start_day)>>,
                <<"demandStartHour", OptInt(change.demand_start_hour)>>,
                <<"demandDuration", OptInt(change.demand_duration)>>,
                <<"isRunning", OptBool(change.is_running)>>,
                <<"isValid", OptBool(change.is_valid)>> }))

\* create_great_demand
CreateGreatDemand(addition) ==
  EmptyTok("greatDemand",
    << PushAttribute("uniqueId", addition.unique_id),
       PushAttribute("fillTypeName", addition.fill_type_name),
       PushAttribute("demandMultiplier", FormatFix6(addition.demand_multiplier)),
       PushAttribute("demandStartDay", IntStr(addition.demand_start_day)),
       PushAttribute("demandStartHour", IntStr(addition.demand_start_hour)),
       PushAttribute("demandDuration", IntStr(addition.demand_duration)),
       PushAttribute("isRunning", Raw("false")),
       PushAttribute("isValid", Raw("true")) >>)

\* the three fields of EconomyChanges, unwrap_or_default
EcoChangeList(ch) == IF IsSome(ch.great_demand_changes) THEN ch.great_demand_changes.some ELSE <<>>
EcoDeletions(ch) ==
  IF IsSome(ch.great_demand_deletions)
  THEN {ch.great_demand_deletions.some[i] : i \in 1..Len(ch.great_demand_deletions.some)}
  ELSE {}
EcoAdditions(ch) ==
  IF IsSome(ch.great_demand_additions)
  THEN [i \in 1..Len(ch.great_demand_additions.some) |->
          CreateGreatDemand(ch.great_demand_additions.some[i])]
  ELSE <<>>

\* a greatDemand tag met inside greatDemands, as a start tag or self-closing
EcoSlot(e, ch, demand_index) ==
  IF demand_index \in EcoDeletions(ch) THEN EmptyTok("greatDemand", <<>>)
  ELSE IF IsSome(Lookup(EcoChangeList(ch), "index", demand_index))
  THEN [e EXCEPT !.attrs =
          PatchGreatDemandAttrs(e, Lookup(EcoChangeList(ch), "index", demand_index).some)]
  ELSE e

\* the event loop of write_economy_changes; `skip` is skip_until_end_great_demand
RECURSIVE EconomyLoop(_, _, _, _, _, _)
EconomyLoop(toks, i, ch, demand_index, in_great_demands, skip) ==
  IF i > Len(toks) THEN <<>>
  ELSE LET e == toks[i] IN
    CASE e.kind = "start" /\ e.tag = "greatDemands" ->
           <<e>> \o EconomyLoop(toks, i + 1, ch, 0, TRUE, skip)
      [] e.kind = "start" /\ e.tag = "greatDemand" /\ in_great_demands ->
           <<EcoSlot(e, ch, demand_index)>>
           \o EconomyLoop(toks, i + 1, ch, demand_index + 1, in_great_demands,
                          skip \/ demand_index \in EcoDeletions(ch))
      [] e.kind = "empty" /\ e.tag = "greatDemand" /\ in_great_demands ->
           <<EcoSlot(e, ch, demand_index)>>
           \o EconomyLoop(toks, i + 1, ch, demand_index + 1, in_great_demands, skip)
      [] e.kind = "end" /\ e.tag = "greatDemand" /\ skip ->
           EconomyLoop(toks, i + 1, ch, demand_index, in_great_demands, FALSE)
      [] e.kind = "end" /\ e.tag = "greatDemands" ->
           EcoAdditions(ch) \o <<e>>
           \o EconomyLoop(toks, i + 1, ch, demand_index, FALSE, skip)
      [] e.kind = "end" /\ e.tag # "greatDemands" /\ ~(e.tag = "greatDemand" /\ skip) ->
           <<e>> \o EconomyLoop(toks, i + 1, ch, demand_index, in_great_demands, skip)
      [] OTHER ->
           (IF skip THEN <<>> ELSE <<e>>)
           \o EconomyLoop(toks, i + 1, ch, demand_index, in_great_demands, skip)

\* the output buffer of write_economy_changes
EconomyOutput(toks, ch) == EconomyLoop(toks, 1, ch, 0, FALSE, FALSE)

\* ---------------------------------------------------- parsers/economy.rs
\* the GreatDemand read from a tag
GreatDemandOf(e, index) ==
  [index |-> index,
   unique_id |-> AttrValue(e.attrs, "uniqueId"),
   fill_type_name |-> AttrValue(e.attrs, "fillTypeName"),
   demand_multiplier |-> AttrF64(e.attrs, "demandMultiplier"),
   demand_start_day |-> ParseU32(AttrValue(e.attrs, "demandStartDay")),
   demand_start_hour |-> ParseU32(AttrValue(e.attrs, "demandStartHour")),
   demand_duration |-> ParseU32(AttrValue(e.attrs, "demandDuration")),
   is_running |-> (AttrValue(e.attrs, "isRunning") = Raw("true")),
   is_valid |-> (AttrValue(e.attrs, "isValid") = Raw("true"))]

\* the event loop of parse_economy, for its great_demands
RECURSIVE ParseEconomyLoop(_, _, _, _)
ParseEconomyLoop(toks, i, demand_index, in_great_demands) ==
  IF i > Len(toks) THEN <<>>
  ELSE LET e == toks[i] IN
    CASE e.kind = "start" /\ e.tag = "greatDemands" ->
           ParseEconomyLoop(toks, i + 1, 0, TRUE)
      [] e.kind \in {"start", "empty"} /\ e.tag = "greatDemand" /\ in_great_demands ->
           (IF AttrValue(e.attrs, "uniqueId") # NoText
            THEN <<GreatDemandOf(e, demand_index)>> ELSE <<>>)
           \o ParseEconomyLoop(toks, i + 1, demand_index + 1, in_great_demands)
      [] e.kind = "end" /\ e.tag = "greatDemands" ->
           ParseEconomyLoop(toks, i + 1, demand_index, FALSE)
      [] OTHER -> ParseEconomyLoop(toks, i + 1, demand_index, in_great_demands)

\* parse_economy(..).great_demands of a well-formed text
ParseGreatDemands(toks) == ParseEconomyLoop(toks, 1, 0, FALSE)

\* --------------------------------------------------------- quick_xml Reader
\* The reader checks end names: read_event is an Err at an end tag that
\* does not close the open start tag.  The tags open after the first i
\* tokens, and whether every end tag so far closed the open one.
RECURSIVE OpenTags(_, _)
OpenTags(toks, i) ==
  IF i = 0 THEN [ok |-> TRUE, open |-> <<>>]
  ELSE LET rest == OpenTags(toks, i - 1)
           e == toks[i]
       IN IF ~rest.ok THEN rest
          ELSE IF e.kind = "start" THEN [rest EXCEPT !.open = Append(@, e.tag)]
          ELSE IF e.kind = "end"
          THEN IF rest.open # <<>> /\ rest.open[Len(rest.open)] = e.tag
               THEN [rest EXCEPT !.open = SubSeq(@, 1, Len(@) - 1)]
               ELSE [rest EXCEPT !.ok = FALSE]
          ELSE rest
\* every read_event of the text is Ok
Readable(toks) == OpenTags(toks, Len(toks)).ok

\* What read_event returns, call after call, from token i on with the tags
\* `open`: the token itself, or an Err at an end tag that does not close the
\* open start tag (the reader has then dropped that start tag and goes on
\* with the next token).
ErrEvent == [kind |-> "err"]
RECURSIVE ReadFrom(_, _, _)
ReadFrom(toks, i, open) ==
  IF i > Len(toks) THEN <<>>
  ELSE LET e == toks[i] IN
    IF e.kind = "start" THEN <<e>> \o ReadFrom(toks, i + 1, Append(open, e.tag))
    ELSE IF e.kind = "end"
    THEN LET rest == ReadFrom(toks, i + 1, IF open = <<>> THEN open
                                           ELSE SubSeq(open, 1, Len(open) - 1))
         IN IF open # <<>> /\ open[Len(open)] = e.tag
            THEN <<e>> \o rest ELSE <<ErrEvent>> \o rest
    ELSE <<e>> \o ReadFrom(toks, i + 1, open)
ReadEvents(toks) == ReadFrom(toks, 1, <<>>)

\* ------------------------------------------------ writers/environment.rs
\* read_text_content from token i on: the unescaped texts up to the next end
\* tag of any name (or the end of the file), and the place after that tag;
\* every other token on the way is dropped
RECURSIVE ReadTextContent(_, _)
ReadTextContent(toks, i) ==
  IF i > Len(toks) THEN [buf |-> <<>>, next |-> i]
  ELSE IF toks[i].kind = "end" THEN [buf |-> <<>>, next |-> i + 1]
  ELSE LET rest == ReadTextContent(toks, i + 1)
       IN IF toks[i].kind = "text"
          THEN [rest EXCEPT !.buf = <<Unescape(toks[i].text)>> \o @]
          ELSE rest

\* Event::Text(BytesText::new(s)): the text escaped; an empty text is no
\* bytes at all, and so no token of the output
NewText(s) == IF s = NoText THEN <<>> ELSE <<TextTok(Escape(s))>>
\* the String the pieces of a buffer make
Joined(buf) ==
  IF buf = <<>> THEN NoText
  ELSE IF Len(buf) = 1 THEN buf[1]
  ELSE [fmt |-> "cat", parts |-> buf]

\* the dayTime and currentDay arms: the start tag, the new or the original
\* text, a new end tag
PatchTextElement(e, toks, i, new) ==
  <<e>> \o NewText(IF IsSome(new) THEN new.some ELSE Joined(ReadTextContent(toks, i + 1).buf))
  \o <<EndTok(e.tag)>>

\* write_forecast_section
RECURSIVE ForecastInstances(_)
ForecastInstances(events) ==
  IF events = <<>> THEN <<>>
  ELSE << TextTok(Raw("            ")),
          EmptyTok("instance",
            << PushAttribute("typeName", Head(events).type_name),
               PushAttribute("season", Head(events).season),
               PushAttribute("variationIndex", IntStr(Head(events).variation_index)),
               PushAttribute("startDay", IntStr(Head(events).start_day)),
               PushAttribute("startDayTime", IntStr(Head(events).start_day_time)),
               PushAttribute("duration", IntStr(Head(events).duration)) >>),
          LineEnd >>
       \o ForecastInstances(Tail(events))
WriteForecastSection(events) ==
  <<StartTok("forecast", <<>>), LineEnd>> \o ForecastInstances(events)
  \o <<TextTok(Raw("        ")), EndTok("forecast")>>

\* the snow and ground arms with a value: a new tag with the one attribute
NewSnow(val) == EmptyTok("snow", <<PushAttribute("height", FormatFix6(val))>>)
NewGround(val) == EmptyTok("ground", <<PushAttribute("wetness", FormatFix6(val))>>)

\* the event loop of write_environment_changes; `skip` is skip_until_forecast_end
RECURSIVE EnvironmentLoop(_, _, _, _, _, _, _)
EnvironmentLoop(toks, i, ch, in_weather, in_forecast, skip, forecast_written) ==
  IF i > Len(toks) THEN <<>>
  ELSE LET e == toks[i] IN
    CASE e.kind = "start" ->
           IF e.tag = "dayTime"
           THEN PatchTextElement(e, toks, i, OptFix6(ch.day_time))
                \o EnvironmentLoop(toks, ReadTextContent(toks, i + 1).next, ch,
                                   in_weather, in_forecast, skip, forecast_written)
           ELSE IF e.tag = "currentDay"
           THEN PatchTextElement(e, toks, i, OptInt(ch.current_day))
                \o EnvironmentLoop(toks, ReadTextContent(toks, i + 1).next, ch,
                                   in_weather, in_forecast, skip, forecast_written)
           ELSE IF e.tag = "weather"
           THEN <<e>> \o EnvironmentLoop(toks, i + 1, ch, TRUE, in_forecast, skip,
                                         forecast_written)
           ELSE IF e.tag = "forecast" /\ in_weather
           THEN IF IsSome(ch.weather_forecast)
                THEN EnvironmentLoop(toks, i + 1, ch, in_weather, TRUE, TRUE, forecast_written)
                ELSE <<e>> \o EnvironmentLoop(toks, i + 1, ch, in_weather, TRUE, skip,
                                              forecast_written)
           ELSE (IF skip THEN <<>> ELSE <<e>>)
                \o EnvironmentLoop(toks, i + 1, ch, in_weather, in_forecast, skip,
                                   forecast_written)
      [] e.kind = "empty" ->
           IF skip
           THEN EnvironmentLoop(toks, i + 1, ch, in_weather, in_forecast, skip, forecast_written)
           ELSE IF e.tag = "snow" /\ in_weather /\ ~in_forecast
           THEN <<IF IsSome(ch.snow_height) THEN NewSnow(ch.snow_height.some) ELSE e>>
                \o EnvironmentLoop(toks, i + 1, ch, in_weather, in_forecast, skip,
                                   forecast_written)
           ELSE IF e.tag = "ground" /\ in_weather /\ ~in_forecast
           THEN <<IF IsSome(ch.ground_wetness) THEN NewGround(ch.ground_wetness.some) ELSE e>>
                \o EnvironmentLoop(toks, i + 1, ch, in_weather, in_forecast, skip,
                                   forecast_written)
           ELSE IF e.tag = "forecast" /\ in_weather
           THEN IF IsSome(ch.weather_forecast)
                THEN WriteForecastSection(ch.weather_forecast.some)
                     \o EnvironmentLoop(toks, i + 1, ch, in_weather, in_forecast, skip, TRUE)
                ELSE <<e>> \o EnvironmentLoop(toks, i + 1, ch, in_weather, in_forecast, skip,
                                              forecast_written)
           ELSE <<e>> \o EnvironmentLoop(toks, i + 1, ch, in_weather, in_forecast, skip,
                                         forecast_written)
      [] e.kind = "end" ->
           IF e.tag = "forecast" /\ in_weather
           THEN IF skip
                THEN (IF IsSome(ch.weather_forecast) /\ ~forecast_written
                      THEN WriteForecastSection(ch.weather_forecast.some) ELSE <<>>)
                     \o EnvironmentLoop(toks, i + 1, ch, in_weather, FALSE, FALSE,
                                        forecast_written)
                ELSE <<e>> \o EnvironmentLoop(toks, i + 1, ch, in_weather, FALSE, skip,
                                              forecast_written)
           ELSE IF e.tag = "weather"
           THEN <<e>> \o EnvironmentLoop(toks, i + 1, ch, FALSE, in_forecast, skip,
                                         forecast_written)
           ELSE (IF skip THEN <<>> ELSE <<e>>)
                \o EnvironmentLoop(toks, i + 1, ch, in_weather, in_forecast, skip,
                                   forecast_written)
      [] e.kind = "err" -> <<e>>      \* the Err arm: the loop is left
      [] OTHER ->
           (IF skip THEN <<>> ELSE <<e>>)
           \o EnvironmentLoop(toks, i + 1, ch, in_weather, in_forecast, skip, forecast_written)

\* the output buffer of write_environment_changes, `toks` being the events
\* the reader returns
EnvironmentOutput(toks, ch) == EnvironmentLoop(toks, 1, ch, FALSE, FALSE, FALSE, FALSE)
\* the event loop meets an Err of the reader: one that read_text_content has
\* not taken
EnvironmentFails(toks, ch) ==
  LET out == EnvironmentOutput(ReadEvents(toks), ch)
  IN \E i \in 1..Len(out) : out[i].kind = "err"

\* ------------------------------------------------------ writers/field.rs
\* patch_field
PatchField(e, change) ==
  EmptyTok("field",
    PatchAttrs(e.attrs,
      NewValues({ <<"fruitType", change.fruit_type>>,
                  <<"plannedFruit", change.planned_fruit>>,
                  <<"growthState", OptInt(change.growth_state)>>,
                  <<"groundType", change.ground_type>>,
                  <<"weedState", OptInt(change.weed_state)>>,
                  <<"stoneLevel", OptInt(change.stone_level)>>,
                  <<"sprayLevel", OptInt(change.spray_level)>>,
                  <<"sprayType", change.spray_type>>,
                  <<"limeLevel", OptInt(change.lime_level)>>,
                  <<"plowLevel", OptInt(change.plow_level)>>,
                  <<"rollerLevel", OptInt(change.roller_level)>>,
                  <<"stubbleShredLevel", OptInt(change.stubble_shred_level)>>,
                  <<"waterLevel", OptInt(change.water_level)>> })))

\* patch_farmland
PatchFarmland(e, change) ==
  EmptyTok("farmland",
    PatchAttrs(e.attrs, NewValues({<<"farmId", Some(IntStr(change.farm_id))>>})))

\* attr_u32
AttrU32(as, k) == ParseU32(AttrValue(as, k))

\* the output buffer of write_field_changes: the self-closing field tags
\* whose id has a change are patched
FieldOutput(toks, chs) ==
  [i \in 1..Len(toks) |->
     IF toks[i].kind = "empty" /\ toks[i].tag = "field"
        /\ IsSome(Lookup(chs, "id", AttrU32(toks[i].attrs, "id")))
     THEN PatchField(toks[i], Lookup(chs, "id", AttrU32(toks[i].attrs, "id")).some)
     ELSE toks[i]]

\* the output buffer of write_farmland_changes
FarmlandOutput(toks, chs) ==
  [i \in 1..Len(toks) |->
     IF toks[i].kind = "empty" /\ toks[i].tag = "farmland"
        /\ IsSome(Lookup(chs, "id", AttrU32(toks[i].attrs, "id")))
     THEN PatchFarmland(toks[i], Lookup(chs, "id", AttrU32(toks[i].attrs, "id")).some)
     ELSE toks[i]]

\* ------------------------------------------------ writers/collectible.rs
\* patch_collectible
PatchCollectible(e, change) ==
  EmptyTok("collectible",
    PatchAttrs(e.attrs, NewValues({<<"isCollected", OptBool(Some(change.collected))>>})))

\* the output buffer of write_collectible_changes
CollectibleOutput(toks, chs) ==
  [i \in 1..Len(toks) |->
     IF toks[i].kind = "empty" /\ toks[i].tag = "collectible"
        /\ IsSome(Lookup(chs, "index", AttrU32(toks[i].attrs, "index")))
     THEN PatchCollectible(toks[i], Lookup(chs, "index", AttrU32(toks[i].attrs, "index")).some)
     ELSE toks[i]]

\* --------------------------------------------------- writers/contract.rs
\* patch_settings: the tag keeps its name and kind
PatchSettings(e, ch) ==
  [e EXCEPT !.attrs =
     PatchAttrs(e.attrs,
       NewValues({ <<"leaseVehicle", OptFix6(ch.lease_vehicle)>>,
                   <<"missionPerFarm", OptFix6(ch.mission_per_farm)>>,
                   <<"allowClearAdd", OptFix6(ch.allow_clear_add)>> }))]

\* the output buffer of write_contract_settings: every settings and
\* contractSettings tag goes through patch_settings
ContractOutput(toks, ch) ==
  [i \in 1..Len(toks) |->
     IF toks[i].kind \in {"start", "empty"} /\ toks[i].tag \in {"settings", "contractSettings"}
     THEN PatchSettings(toks[i], ch)
     ELSE toks[i]]

\* ---------------------------------------------------- writers/mission.rs
\* is_mission_tag, over the tag names the documents here use
MissionTags == {"harvestMission", "plowMission"}
IsMissionTag(tag) == tag \in MissionTags

\* MissionStatus::from_str(s).to_xml_str()
MissionStatusXml(s) ==
  IF s = IntStr(1) THEN IntStr(1) ELSE IF s = IntStr(2) THEN IntStr(2) ELSE IntStr(0)
OptStatus(o) == IF IsSome(o) THEN Some(MissionStatusXml(o.some)) ELSE None

\* patch_mission_tag
PatchMissionTag(e, change) ==
  [e EXCEPT !.attrs = PatchAttrs(e.attrs, NewValues({<<"status", OptStatus(change.status)>>}))]

\* patch_info
PatchInfo(e, change) ==
  [e EXCEPT !.attrs =
     PatchAttrs(e.attrs,
       NewValues({ <<"reward", OptFix6(change.reward)>>,
                   <<"completion", OptFix6(change.completion)>>,
                   <<"reimbursement", OptFix6(change.reimbursement)>> }))]

\* the event loop of write_mission_changes
RECURSIVE MissionLoop(_, _, _, _, _)
MissionLoop(toks, i, chs, active_change, active_mission_tag) ==
  IF i > Len(toks) THEN <<>>
  ELSE LET e == toks[i] IN
    CASE e.kind = "start" /\ IsMissionTag(e.tag) ->
           LET change == Lookup(chs, "unique_id", AttrValue(e.attrs, "uniqueId"))
           IN IF IsSome(change)
              THEN <<PatchMissionTag(e, change.some)>>
                   \o MissionLoop(toks, i + 1, chs, change, Some(e.tag))
              ELSE <<e>> \o MissionLoop(toks, i + 1, chs, active_change, active_mission_tag)
      [] e.kind = "start" /\ ~IsMissionTag(e.tag) ->
           <<IF IsSome(active_change) /\ e.tag = "info"
             THEN PatchInfo(e, active_change.some) ELSE e>>
           \o MissionLoop(toks, i + 1, chs, active_change, active_mission_tag)
      [] e.kind = "empty" ->
           <<IF IsSome(active_change) /\ e.tag = "info"
             THEN PatchInfo(e, active_change.some) ELSE e>>
           \o MissionLoop(toks, i + 1, chs, active_change, active_mission_tag)
      [] e.kind = "end" ->
           IF Some(e.tag) = active_mission_tag
           THEN <<e>> \o MissionLoop(toks, i + 1, chs, None, None)
           ELSE <<e>> \o MissionLoop(toks, i + 1, chs, active_change, active_mission_tag)
      [] OTHER -> <<e>> \o MissionLoop(toks, i + 1, chs, active_change, active_mission_tag)

\* the output buffer of write_mission_changes
MissionOutput(toks, chs) == MissionLoop(toks, 1, chs, None, None)

\* -------------------------------------------------- writers/placeable.rs
\* patch_placeable_start
PatchPlaceableStart(e, change) ==
  StartTok("placeable",
    PatchAttrs(e.attrs,
      NewValues({ <<"farmId", OptInt(change.farm_id)>>,
                  <<"price", OptFix6(change.price)>> })))

\* patch_material_complete
PatchMaterialComplete(e) ==
  EmptyTok("material",
    PatchAttrs(e.attrs, NewValues({<<"amountRemaining", Some(IntStr(0))>>})))

\* patch_storage
PatchStorage(e, sc) ==
  EmptyTok("storage",
    PatchAttrs(e.attrs, NewValues({<<"fillLevel", Some(FormatFix6(sc.amount))>>})))

\* stock_changes.iter().find(|s| s.fill_type == fill_type): its place, 0 for none
FindStock(stock, e) ==
  LET list == IF IsSome(stock) THEN stock.some ELSE <<>>
      hits == {i \in 1..Len(list) : list[i].fill_type = AttrValue(e.attrs, "fillType")}
  IN IF hits = {} THEN 0 ELSE CHOOSE i \in hits : \A j \in hits : i <= j

\* the Empty arm of write_placeable_changes under a current change
PlaceableEmpty(e, change, in_construction, in_input, in_output) ==
  IF e.tag = "material" /\ in_construction /\ change.complete_construction
  THEN PatchMaterialComplete(e)
  ELSE IF e.tag = "storage" /\ in_input
  THEN IF FindStock(change.production_inputs, e) # 0
       THEN PatchStorage(e, change.production_inputs.some[FindStock(change.production_inputs, e)])
       ELSE e
  ELSE IF e.tag = "storage" /\ in_output
  THEN IF FindStock(change.production_outputs, e) # 0
       THEN PatchStorage(e, change.production_outputs.some[FindStock(change.production_outputs, e)])
       ELSE e
  ELSE e

\* the event loop of write_placeable_changes; st holds its flags
RECURSIVE PlaceableLoop(_, _, _, _, _, _)
PlaceableLoop(toks, i, chs, placeable_index, current_change, st) ==
  IF i > Len(toks) THEN <<>>
  ELSE LET e == toks[i] IN
    CASE e.kind = "start" ->
           IF e.tag = "placeable" /\ ~st.in_placeable
           THEN LET change == Lookup(chs, "index", placeable_index)
                IN <<IF IsSome(change) THEN PatchPlaceableStart(e, change.some) ELSE e>>
                   \o PlaceableLoop(toks, i + 1, chs, placeable_index + 1, change,
                                    [st EXCEPT !.in_placeable = TRUE])
           ELSE <<e>> \o PlaceableLoop(toks, i + 1, chs, placeable_index, current_change,
                  IF e.tag = "constructionPlaceable" /\ st.in_placeable
                  THEN [st EXCEPT !.in_construction = TRUE]
                  ELSE IF e.tag = "productionPoint" /\ st.in_placeable
                  THEN [st EXCEPT !.in_production_point = TRUE]
                  ELSE IF e.tag = "input" /\ st.in_production_point
                  THEN [st EXCEPT !.in_production_input = TRUE]
                  ELSE IF e.tag = "output" /\ st.in_production_point
                  THEN [st EXCEPT !.in_production_output = TRUE]
                  ELSE st)
      [] e.kind = "empty" ->
           <<IF IsSome(current_change)
             THEN PlaceableEmpty(e, current_change.some, st.in_construction,
                                 st.in_production_input, st.in_production_output)
             ELSE e>>
           \o PlaceableLoop(toks, i + 1, chs, placeable_index, current_change, st)
      [] e.kind = "end" ->
           <<e>> \o PlaceableLoop(toks, i + 1, chs, placeable_index,
                  IF e.tag = "placeable" /\ st.in_placeable THEN None ELSE current_change,
                  IF e.tag = "placeable" /\ st.in_placeable
                  THEN [st EXCEPT !.in_placeable = FALSE]
                  ELSE IF e.tag = "constructionPlaceable"
                  THEN [st EXCEPT !.in_construction = FALSE]
                  ELSE IF e.tag = "productionPoint"
                  THEN [st EXCEPT !.in_production_point = FALSE,
                                  !.in_production_input = FALSE,
                                  !.in_production_output = FALSE]
                  ELSE IF e.tag = "input" /\ st.in_production_point
                  THEN [st EXCEPT !.in_production_input = FALSE]
                  ELSE IF e.tag = "output" /\ st.in_production_point
                  THEN [st EXCEPT !.in_production_output = FALSE]
                  ELSE st)
      [] OTHER -> <<e>> \o PlaceableLoop(toks, i + 1, chs, placeable_index, current_change, st)

\* the output buffer of write_placeable_changes
PlaceableOutput(toks, chs) ==
  PlaceableLoop(toks, 1, chs, 0, None,
                [in_placeable |-> FALSE, in_construction |-> FALSE,
                 in_production_point |-> FALSE, in_production_input |-> FALSE,
                 in_production_output |-> FALSE])

\* ------------------------------------------- documents for direct calls
\* farms.xml with a farm name the player typed with an ampersand in it
FarmsEntDoc ==
  [toks |-> << Decl, StartTok("farms", <<>>),
               StartTok("farm", <<Attr("farmId", IntStr(1)), Attr("name", Ent("Tom & Ann", 1)),
                                  Attr("loan", Fix6Str(2000000)),
                                  Attr("money", Fix6Str(1000000))>>),
               EndTok("farm"), EndTok("farms") >>]

\* vehicles.xml: v1 with a fill unit and an attached vehicle nested in it,
\* then v2
VehiclesDoc ==
  [toks |-> << Decl, StartTok("vehicles", <<>>),
               StartTok("vehicle", <<Attr("id", Raw("v1")), Attr("name", Ent("Fast & Strong", 1)),
                                     Attr("price", Fix6Str(9000000)),
                                     Attr("operatingTime", Fix6Str(120000000))>>),
               StartTok("fillUnit", <<>>),
               EmptyTok("unit", <<Attr("index", IntStr(1)), Attr("fillLevel", Fix6Str(0))>>),
               EndTok("fillUnit"),
               StartTok("vehicle", <<Attr("id", Raw("v9"))>>), EndTok("vehicle"),
               EndTok("vehicle"),
               StartTok("vehicle", <<Attr("id", Raw("v2")), Attr("price", Fix6Str(5000000))>>),
               TextTok(Raw("\n")),
               EndTok("vehicle"),
               EndTok("vehicles") >>]

\* three vehicles with fill units of the same index; v2 has a <unit> outside
\* its <fillUnit> and an inner vehicle v9
FilledVehicle(id, level) ==
  << StartTok("fillUnit", <<>>),
     EmptyTok("unit", <<Attr("index", IntStr(1)), Attr("fillLevel", Fix6Str(level))>>),
     EmptyTok("unit", <<Attr("index", IntStr(2)), Attr("fillLevel", Fix6Str(level + 1))>>),
     EndTok("fillUnit") >>
VehiclesFillDoc ==
  [toks |-> << Decl, StartTok("vehicles", <<>>),
               StartTok("vehicle", <<Attr("id", Raw("v1")), Attr("price", Fix6Str(9000000))>>) >>
            \o FilledVehicle("v1", 1000000)
            \o << EndTok("vehicle"),
                  StartTok("vehicle", <<Attr("id", Raw("v2")), Attr("price", Fix6Str(5000000))>>),
                  EmptyTok("unit", <<Attr("index", IntStr(1)), Attr("fillLevel", Fix6Str(7000000))>>) >>
            \o FilledVehicle("v2", 2000000)
            \o << StartTok("vehicle", <<Attr("id", Raw("v9"))>>) >>
            \o FilledVehicle("v9", 9000000)
            \o << EndTok("vehicle"), EndTok("vehicle"),
                  StartTok("vehicle", <<Attr("id", Raw("v3"))>>) >>
            \o FilledVehicle("v3", 3000000)
            \o << EndTok("vehicle"), EndTok("vehicles") >>]

\* a vehicle inside the <fillUnit> of another one
VehiclesInnerDoc ==
  [toks |-> << Decl, StartTok("vehicles", <<>>),
               StartTok("vehicle", <<Attr("id", Raw("v1")), Attr("price", Fix6Str(9000000))>>),
               StartTok("fillUnit", <<>>),
               StartTok("vehicle", <<Attr("id", Raw("v9"))>>),
               EmptyTok("unit", <<Attr("index", IntStr(1)), Attr("fillLevel", Fix6Str(9000000))>>),
               EndTok("vehicle"),
               EmptyTok("unit", <<Attr("index", IntStr(1)), Attr("fillLevel", Fix6Str(1000000))>>),
               EndTok("fillUnit"),
               EndTok("vehicle"),
               EndTok("vehicles") >>]

\* an item of sales.xml as the game writes it, with its configurations
GameItem(file, price) ==
  << StartTok("item", <<Attr("xmlFilename", Raw(file)), Attr("age", IntStr(3)),
                        Attr("price", IntStr(price)), Attr("damage", Fix6Str(100000)),
                        Attr("wear", Fix6Str(200000)),
                        Attr("operatingTime", Fix6Str(60000000)),
                        Attr("timeLeft", IntStr(5)), Attr("isGenerated", Raw("true"))>>),
     StartTok("boughtConfigurations", <<>>),
     EmptyTok("boughtConfiguration", <<Attr("name", Raw("wheel")), Attr("id", Raw("2"))>>),
     EndTok("boughtConfigurations"),
     EndTok("item") >>
\* an item as an earlier write_sale_additions left it
AddedItem(file, price) ==
  [xml_filename |-> Raw(file), age |-> 1, price |-> price, damage |-> 0, wear |-> 0,
   operating_time |-> 2 * Unit, time_left |-> 4]

\* sales.xml: two items of the game; an added item and one of the game; a
\* root without content
SalesGameDoc ==
  [toks |-> <<Decl, StartTok("sales", <<>>)>> \o GameItem("a.xml", 100)
            \o GameItem("b.xml", 200) \o <<EndTok("sales")>>]
SalesMixedDoc ==
  [toks |-> <<Decl, StartTok("sales", <<>>)>> \o FormatSaleItem(AddedItem("a.xml", 100))
            \o GameItem("b.xml", 200) \o <<EndTok("sales")>>]
SalesEmptyDoc == [toks |-> <<Decl, EmptyTok("sales", <<>>)>>]

\* a great demand of economy.xml
Demand(id, fill) ==
  << Attr("uniqueId", Raw(id)), Attr("fillTypeName", Raw(fill)),
     Attr("demandMultiplier", Fix6Str(1500000)), Attr("demandStartDay", IntStr(2)),
     Attr("demandStartHour", IntStr(8)), Attr("demandDuration", IntStr(24)),
     Attr("isRunning", Raw("false")), Attr("isValid", Raw("true")) >>
\* economy.xml: a demand, a blank slot, a demand; and with the first demand
\* holding a child element
EconomyDoc ==
  [toks |-> << Decl, StartTok("economy", <<>>), StartTok("greatDemands", <<>>),
               EmptyTok("greatDemand", Demand("s1", "WHEAT")),
               EmptyTok("greatDemand", <<>>),
               EmptyTok("greatDemand", Demand("s2", "FLOUR")),
               EndTok("greatDemands"), EndTok("economy") >>]
EconomyNestedDoc ==
  [toks |-> << Decl, StartTok("economy", <<>>), StartTok("greatDemands", <<>>),
               StartTok("greatDemand", Demand("s1", "WHEAT")),
               StartTok("station", <<>>), TextTok(Raw("mill")), EndTok("station"),
               EndTok("greatDemand"),
               EmptyTok("greatDemand", Demand("s2", "FLOUR")),
               EndTok("greatDemands"), EndTok("economy") >>]

\* environment.xml
EnvironmentDoc ==
  [toks |-> << Decl, StartTok("environment", <<>>),
               StartTok("dayTime", <<>>), TextTok(Fix6Str(8000000)), EndTok("dayTime"),
               StartTok("currentDay", <<>>), TextTok(IntStr(4)), EndTok("currentDay"),
               StartTok("weather", <<Attr("timeSinceLastRain", IntStr(10))>>),
               StartTok("forecast", <<>>),
               EmptyTok("instance", <<Attr("typeName", Raw("SUN")), Attr("season", Raw("SUMMER")),
                                      Attr("variationIndex", IntStr(1)),
                                      Attr("startDay", IntStr(4)),
                                      Attr("startDayTime", IntStr(0)),
                                      Attr("duration", IntStr(3600))>>),
               EndTok("forecast"),
               EmptyTok("snow", <<Attr("height", Fix6Str(0)), Attr("physicalHeight", Fix6Str(0))>>),
               EmptyTok("ground", <<>>),
               EndTok("weather"), EndTok("environment") >>]

\* environment.xml with the tags of the scalars also at other places: a
\* dayTime under another parent, a snow outside weather, a ground inside
\* forecast, and a snow under another parent inside weather
EnvironmentNestedDoc ==
  [toks |-> << Decl, StartTok("environment", <<>>),
               StartTok("dayTime", <<>>), TextTok(Fix6Str(8000000)), EndTok("dayTime"),
               StartTok("currentDay", <<>>), TextTok(IntStr(4)), EndTok("currentDay"),
               StartTok("lastSave", <<>>),
               StartTok("dayTime", <<>>), TextTok(Fix6Str(7000000)), EndTok("dayTime"),
               EndTok("lastSave"),
               EmptyTok("snow", <<Attr("height", Fix6Str(5000000))>>),
               StartTok("weather", <<>>),
               StartTok("forecast", <<>>),
               EmptyTok("ground", <<Attr("wetness", Fix6Str(2000000))>>),
               EndTok("forecast"),
               EmptyTok("snow", <<Attr("height", Fix6Str(0))>>),
               EmptyTok("ground", <<Attr("wetness", Fix6Str(0))>>),
               StartTok("clouds", <<>>),
               EmptyTok("snow", <<Attr("height", Fix6Str(3000000))>>),
               EndTok("clouds"),
               EndTok("weather"), EndTok("environment") >>]

\* hand-edited files with an end tag that closes nothing: inside <dayTime>,
\* inside <weather>, inside <vehicle>
EnvironmentBrokenDoc ==
  [toks |-> << Decl, StartTok("environment", <<>>),
               StartTok("dayTime", <<>>), TextTok(Fix6Str(8000000)), EndTok("dayTimee"),
               EndTok("environment") >>]
EnvironmentBrokenWeatherDoc ==
  [toks |-> << Decl, StartTok("environment", <<>>),
               StartTok("dayTime", <<>>), TextTok(Fix6Str(8000000)), EndTok("dayTime"),
               StartTok("weather", <<>>), EndTok("wether"),
               EndTok("environment") >>]
VehiclesBrokenDoc ==
  [toks |-> << Decl, StartTok("vehicles", <<>>),
               StartTok("vehicle", <<Attr("id", Raw("v1")), Attr("price", Fix6Str(1000000))>>),
               EndTok("vehicel"),
               EndTok("vehicles") >>]

FieldsDoc ==
  [toks |-> << Decl, StartTok("fields", <<>>),
               EmptyTok("field", <<Attr("id", IntStr(1)), Attr("fruitType", Raw("WHEAT")),
                                   Attr("growthState", IntStr(3)),
                                   Attr("note", Ent("oats & rye", 1))>>),
               EmptyTok("field", <<Attr("id", IntStr(2)), Attr("fruitType", Raw("UNKNOWN")),
                                   Attr("growthState", IntStr(0))>>),
               EndTok("fields") >>]
FarmlandDoc ==
  [toks |-> << Decl, StartTok("farmlands", <<>>),
               EmptyTok("farmland", <<Attr("id", IntStr(1)), Attr("farmId", IntStr(1))>>),
               EmptyTok("farmland", <<Attr("id", IntStr(2)), Attr("farmId", IntStr(0))>>),
               EndTok("farmlands") >>]
CollectiblesDoc ==
  [toks |-> << Decl, StartTok("collectibles", <<>>),
               EmptyTok("collectible", <<Attr("index", IntStr(1)), Attr("isCollected", Raw("false"))>>),
               EmptyTok("collectible", <<Attr("index", IntStr(2)), Attr("isCollected", Raw("true"))>>),
               EndTok("collectibles") >>]
ContractsDoc ==
  [toks |-> << Decl, StartTok("contracts", <<>>),
               EmptyTok("settings", <<Attr("leaseVehicle", Fix6Str(1000000)),
                                      Attr("missionPerFarm", Fix6Str(3000000)),
                                      Attr("allowClearAdd", Fix6Str(1000000)),
                                      Attr("label", Ent("lease & clear", 1))>>),
               EndTok("contracts") >>]
MissionsDoc ==
  [toks |-> << Decl, StartTok("missions", <<>>),
               StartTok("harvestMission", <<Attr("uniqueId", Raw("m1")), Attr("status", IntStr(0))>>),
               EmptyTok("info", <<Attr("reward", Fix6Str(1000000)),
                                  Attr("completion", Fix6Str(0)),
                                  Attr("reimbursement", Fix6Str(0))>>),
               EndTok("harvestMission"),
               StartTok("plowMission", <<Attr("uniqueId", Raw("m2")), Attr("status", IntStr(1))>>),
               EmptyTok("info", <<Attr("reward", Fix6Str(2000000))>>),
               EndTok("plowMission"),
               EndTok("missions") >>]
PlaceablesDoc ==
  [toks |-> << Decl, StartTok("placeables", <<>>),
               StartTok("placeable", <<Attr("filename", Ent("mods/a&b.xml", 1)),
                                       Attr("farmId", IntStr(1)),
                                       Attr("price", Fix6Str(8000000))>>),
               StartTok("constructionPlaceable", <<>>),
               EmptyTok("material", <<Attr("fillType", Raw("WOOD")),
                                      Attr("amountRemaining", IntStr(40))>>),
               EndTok("constructionPlaceable"),
               StartTok("productionPoint", <<>>),
               StartTok("input", <<>>),
               EmptyTok("storage", <<Attr("fillType", Raw("WHEAT")), Attr("fillLevel", Fix6Str(0))>>),
               EndTok("input"),
               EndTok("productionPoint"),
               EndTok("placeable"),
               StartTok("placeable", <<Attr("farmId", IntStr(2)), Attr("price", Fix6Str(0))>>),
               EndTok("placeable"),
               EndTok("placeables") >>]

\* a directory holding the one document
OneFile(file, d) == [p \in {<<file>>} |-> d]
\* The directories a direct writer call is made on; the empty one is a save
\* the shop has not yet written a sales.xml into.
WriterDirs ==
  { OneFile(CareerFile, CareerAttrDoc), OneFile(CareerFile, CareerChildDoc),
    OneFile(FarmsFile, FarmsDoc), OneFile(FarmsFile, FarmsEntDoc),
    OneFile(VehiclesFile, VehiclesDoc),
    OneFile(SalesFile, SalesGameDoc), OneFile(SalesFile, SalesMixedDoc),
    OneFile(SalesFile, SalesEmptyDoc), EmptyTree,
    OneFile(Xml("economy"), EconomyDoc), OneFile(Xml("economy"), EconomyNestedDoc),
    OneFile(EnvironmentFile, EnvironmentDoc), OneFile(EnvironmentFile, EnvironmentNestedDoc),
    OneFile(EnvironmentFile, EnvironmentBrokenDoc),
    OneFile(EnvironmentFile, EnvironmentBrokenWeatherDoc),
    OneFile(VehiclesFile, VehiclesBrokenDoc), OneFile(VehiclesFile, VehiclesFillDoc),
    OneFile(VehiclesFile, VehiclesInnerDoc),
    OneFile(FieldsFile, FieldsDoc),
    OneFile(FarmlandFile, FarmlandDoc), OneFile(CollectiblesFile, CollectiblesDoc),
    OneFile(ContractsFile, ContractsDoc), OneFile(MissionsFile, MissionsDoc),
    OneFile(PlaceablesFile, PlaceablesDoc) }

\* ------------------------------------------------ the arguments of a call
NoVehicleFields(id) ==
  [unique_id |-> Raw(id), delete |-> FALSE, age |-> None, price |-> None, farm_id |-> None,
   property_state |-> None, operating_time |-> None, damage |-> None, wear |-> None,
   fill_units |-> None]
\* a change of the fill level of the unit with index 1
FillChange(id, level) ==
  [NoVehicleFields(id) EXCEPT !.fill_units = Some(<<[index |-> 1, fill_level |-> level * Unit]>>)]
VehicleChangeInputs ==
  { <<NoVehicleFields("v1")>>,
    <<[NoVehicleFields("v0") EXCEPT !.price = Some(2 * Unit)]>>,
    <<[NoVehicleFields("v1") EXCEPT !.delete = TRUE]>>,
    <<[NoVehicleFields("v2") EXCEPT !.delete = TRUE]>>,
    <<[NoVehicleFields("v1") EXCEPT !.price = Some(2 * Unit), !.property_state = Some("Rented"),
                                    !.fill_units = Some(<<[index |-> 1, fill_level |-> Unit]>>)]>>,
    <<FillChange("v2", 4)>>,
    <<[NoVehicleFields("v1") EXCEPT !.price = Some(2 * Unit)], FillChange("v2", 4),
      [NoVehicleFields("v3") EXCEPT !.delete = TRUE]>>,
    <<FillChange("v1", 3), FillChange("v2", 4)>>,
    <<[NoVehicleFields("v1") EXCEPT !.delete = TRUE], FillChange("v3", 4)>>,
    <<FillChange("v9", 4)>>,
    <<[NoVehicleFields("v1") EXCEPT !.price = Some(2 * Unit)], FillChange("v9", 4)>> }

NoSaleFields(k) ==
  [index |-> k, delete |-> FALSE, price |-> None, damage |-> None, wear |-> None,
   age |-> None, operating_time |-> None, time_left |-> None]
SaleChangeInputs ==
  { <<NoSaleFields(0)>>,
    <<[NoSaleFields(0) EXCEPT !.delete = TRUE]>>,
    <<[NoSaleFields(1) EXCEPT !.delete = TRUE]>>,
    <<[NoSaleFields(1) EXCEPT !.price = Some(250), !.operating_time = Some(3 * Unit)]>>,
    <<[NoSaleFields(5) EXCEPT !.price = Some(250)]>>,
    <<[NoSaleFields(0) EXCEPT !.delete = TRUE], [NoSaleFields(1) EXCEPT !.price = Some(250)]>>,
    <<[NoSaleFields(2) EXCEPT !.price = Some(250)], [NoSaleFields(0) EXCEPT !.delete = TRUE]>> }
SaleAdditionInputs ==
  { <<>>, <<AddedItem("n.xml", 300)>>, <<AddedItem("n.xml", 300), AddedItem("m.xml", 400)>> }

NoDemandFields(k) ==
  [index |-> k, fill_type_name |-> None, demand_multiplier |-> None,
   demand_start_day |-> None, demand_start_hour |-> None, demand_duration |-> None,
   is_running |-> None, is_valid |-> None]
NoEconomyChanges ==
  [great_demand_changes |-> None, great_demand_additions |-> None,
   great_demand_deletions |-> None]
EconomyChangeInputs ==
  { NoEconomyChanges,
    [NoEconomyChanges EXCEPT !.great_demand_deletions = Some(<<0>>)],
    [NoEconomyChanges EXCEPT !.great_demand_changes =
       Some(<<[NoDemandFields(1) EXCEPT !.fill_type_name = Some(Raw("BARLEY")),
                                        !.is_running = Some(TRUE)]>>)],
    [NoEconomyChanges EXCEPT !.great_demand_additions =
       Some(<<[unique_id |-> Raw("s3"), fill_type_name |-> Raw("OAT"),
               demand_multiplier |-> 2 * Unit, demand_start_day |-> 5,
               demand_start_hour |-> 6, demand_duration |-> 12]>>)] }

NoEnvironmentChanges ==
  [day_time |-> None, current_day |-> None, snow_height |-> None, ground_wetness |-> None,
   weather_forecast |-> None]
EnvironmentChangeInputs ==
  { NoEnvironmentChanges,
    [NoEnvironmentChanges EXCEPT !.day_time = Some(9 * Unit), !.current_day = Some(9)],
    [NoEnvironmentChanges EXCEPT !.snow_height = Some(Unit)],
    [NoEnvironmentChanges EXCEPT !.ground_wetness = Some(Unit)],
    [NoEnvironmentChanges EXCEPT !.weather_forecast =
       Some(<<[type_name |-> Raw("RAIN"), season |-> Raw("SUMMER"), variation_index |-> 1,
               start_day |-> 5, start_day_time |-> 0, duration |-> 7200]>>)] }

NoFieldFields(id) ==
  [id |-> id, fruit_type |-> None, planned_fruit |-> None, growth_state |-> None,
   ground_type |-> None, weed_state |-> None, stone_level |-> None, spray_level |-> None,
   spray_type |-> None, lime_level |-> None, plow_level |-> None, roller_level |-> None,
   stubble_shred_level |-> None, water_level |-> None]
FieldChangeInputs ==
  { <<NoFieldFields(1)>>,
    <<[NoFieldFields(1) EXCEPT !.fruit_type = Some(Raw("BARLEY")), !.growth_state = Some(5),
                               !.lime_level = Some(2)]>>,
    <<[NoFieldFields(7) EXCEPT !.growth_state = Some(5)]>> }
FarmlandChangeInputs == { <<[id |-> 1, farm_id |-> 2]>>, <<[id |-> 9, farm_id |-> 2]>> }
CollectibleChangeInputs ==
  { <<[index |-> 1, collected |-> TRUE]>>, <<[index |-> 9, collected |-> TRUE]>> }
NoContractFields == [lease_vehicle |-> None, mission_per_farm |-> None, allow_clear_add |-> None]
ContractChangeInputs ==
  { NoContractFields, [NoContractFields EXCEPT !.lease_vehicle = Some(2 * Unit)] }
NoMissionFields(id) ==
  [unique_id |-> Raw(id), reward |-> None, completion |-> None, status |-> None,
   reimbursement |-> None]
MissionChangeInputs ==
  { <<NoMissionFields("m1")>>,
    <<[NoMissionFields("m1") EXCEPT !.reward = Some(3 * Unit), !.status = Some(IntStr(2))]>>,
    <<[NoMissionFields("m0") EXCEPT !.reward = Some(3 * Unit)]>> }
NoPlaceableFields(k) ==
  [index |-> k, farm_id |-> None, price |-> None, complete_construction |-> FALSE,
   production_inputs |-> None, production_outputs |-> None]
PlaceableChangeInputs ==
  { <<NoPlaceableFields(0)>>,
    <<[NoPlaceableFields(0) EXCEPT !.farm_id = Some(2), !.complete_construction = TRUE,
         !.production_inputs = Some(<<[fill_type |-> Raw("WHEAT"), amount |-> 5 * Unit]>>)]>>,
    <<[NoPlaceableFields(5) EXCEPT !.price = Some(Unit)]>> }
FarmFinanceInputs ==
  { [farm_id |-> 1, money |-> None, loan |-> None],
    [farm_id |-> 1, money |-> Some(7 * Unit), loan |-> None],
    [farm_id |-> 3, money |-> Some(7 * Unit), loan |-> Some(Unit)] }

\* --------------------------------------------------- direct writer calls
EconomyFile == Xml("economy")
\* a writer that streams the file through the reader: read_to_string, the
\* event loop, then the commit of its output buffer `out`
StreamOutcomes(tree, file, out) ==
  IF ~Exists(tree, <<file>>) \/ Malformed(tree[<<file>>])
  THEN {WriterRes(FALSE, FALSE, tree)}
  ELSE IF ~Readable(tree[<<file>>].toks) THEN {WriterRes(FALSE, FALSE, tree)}
  ELSE CommitOutcomes(tree, file, [toks |-> out])

\* write_environment_changes: as above, but the loop is left with an error
\* only at an Err it meets itself
EnvironmentOutcomes(tree, ch) ==
  IF ~Exists(tree, <<EnvironmentFile>>) \/ Malformed(tree[<<EnvironmentFile>>])
  THEN {WriterRes(FALSE, FALSE, tree)}
  ELSE IF EnvironmentFails(tree[<<EnvironmentFile>>].toks, ch)
  THEN {WriterRes(FALSE, FALSE, tree)}
  ELSE CommitOutcomes(tree, EnvironmentFile,
         [toks |-> EnvironmentOutput(ReadEvents(tree[<<EnvironmentFile>>].toks), ch)])

\* write_sale_additions on the text of sales.xml
WriteSaleAdditionsText(tree, additions) ==
  IF additions = <<>> THEN {WriterRes(TRUE, FALSE, tree)}
  ELSE IF ~Exists(tree, <<SalesFile>>)
  THEN { WriterRes(FALSE, FALSE, tree),
         WriterRes(FALSE, FALSE,
                   Put(tree, <<SalesFile>>, [partial |-> SalesFromScratch(additions)])),
         WriterRes(TRUE, TRUE, Put(tree, <<SalesFile>>, [toks |-> SalesFromScratch(additions)])) }
  ELSE IF Malformed(tree[<<SalesFile>>]) THEN {WriterRes(FALSE, FALSE, tree)}
  ELSE IF RFindSalesEnd(tree[<<SalesFile>>].toks) = 0 THEN {WriterRes(FALSE, FALSE, tree)}
  ELSE CommitOutcomes(tree, SalesFile,
                      [toks |-> SpliceSaleItems(tree[<<SalesFile>>].toks, additions)])

\* history of the direct calls: the writer, its argument, whether it
\* returned Ok, and the directory it was called on
Invocation(name, arg, ok, before) == [call |-> name, arg |-> arg, ok |-> ok, before |-> before]
UnitResult == [kind |-> "unit"]
\* AppError::XmlParseError { file, .. }
XmlParseError(file) == [kind |-> "err", error |-> "XmlParseError", file |-> file]
\* The error of a failed writer call: Io from read_to_string or from the
\* commit, XmlParseError from the event loop (or from the search of </sales>).
WriterError(name, file, arg, tree) ==
  IF ~Exists(tree, <<file>>) THEN ErrResult("IoError")
  ELSE IF Malformed(tree[<<file>>]) THEN XmlParseError(file)
  ELSE IF name = "saleAdditions"
  THEN (IF RFindSalesEnd(tree[<<file>>].toks) = 0 THEN XmlParseError(file)
        ELSE ErrResult("IoError"))
  ELSE IF name = "environment"
  THEN (IF EnvironmentFails(tree[<<file>>].toks, arg) THEN XmlParseError(file)
        ELSE ErrResult("IoError"))
  ELSE IF ~Readable(tree[<<file>>].toks) THEN XmlParseError(file)
  ELSE ErrResult("IoError")

\* One call of a writer on the save directory, from outside save_changes.
DirectCall(name, file, arg, outcomes) ==
  /\ pc = "idle"
  /\ ops < MaxOps
  /\ ops' = ops + 1
  /\ \E r \in outcomes :
       /\ save' = r.tree
       /\ log' = Append(log, Invocation(name, arg, r.ok, save))
       /\ result' = IF r.ok THEN UnitResult ELSE WriterError(name, file, arg, save)
  /\ UNCHANGED <<backupsRoot, backups, clock, pc, changes, backup_info, files_modified,
                 errors, pre, preBackups, written>>

CallWriteCareerMoney ==
  /\ Exists(save, <<CareerFile>>)
  /\ \E money \in MoneyInputs :
       DirectCall("career", CareerFile, money,
                  StreamOutcomes(save, CareerFile, CareerOutput(save[<<CareerFile>>].toks, money)))
CallWriteFarmFinances ==
  /\ Exists(save, <<FarmsFile>>)
  /\ \E a \in FarmFinanceInputs :
       DirectCall("farm", FarmsFile, a,
                  StreamOutcomes(save, FarmsFile,
                    FarmOutput(save[<<FarmsFile>>].toks, a.farm_id, a.money, a.loan)))
CallWriteVehicleChanges ==
  /\ Exists(save, <<VehiclesFile>>)
  /\ \E chs \in VehicleChangeInputs :
       DirectCall("vehicles", VehiclesFile, chs,
                  StreamOutcomes(save, VehiclesFile,
                                 VehicleOutput(save[<<VehiclesFile>>].toks, chs)))
CallWriteSaleChanges ==
  /\ Exists(save, <<SalesFile>>)
  /\ \E chs \in SaleChangeInputs :
       DirectCall("sales", SalesFile, chs,
                  StreamOutcomes(save, SalesFile, SaleOutput(save[<<SalesFile>>].toks, chs)))
CallWriteSaleAdditions ==
  /\ Exists(save, <<SalesFile>>) \/ save = EmptyTree
  /\ \E additions \in SaleAdditionInputs :
       DirectCall("saleAdditions", SalesFile, additions,
                  WriteSaleAdditionsText(save, additions))
CallWriteFieldChanges ==
  /\ Exists(save, <<FieldsFile>>)
  /\ \E chs \in FieldChangeInputs :
       DirectCall("fields", FieldsFile, chs,
                  StreamOutcomes(save, FieldsFile, FieldOutput(save[<<FieldsFile>>].toks, chs)))
CallWriteFarmlandChanges ==
  /\ Exists(save, <<FarmlandFile>>)
  /\ \E chs \in FarmlandChangeInputs :
       DirectCall("farmlands", FarmlandFile, chs,
                  StreamOutcomes(save, FarmlandFile,
                                 FarmlandOutput(save[<<FarmlandFile>>].toks, chs)))
CallWritePlaceableChanges ==
  /\ Exists(save, <<PlaceablesFile>>)
  /\ \E chs \in PlaceableChangeInputs :
       DirectCall("placeables", PlaceablesFile, chs,
                  StreamOutcomes(save, PlaceablesFile,
                                 PlaceableOutput(save[<<PlaceablesFile>>].toks, chs)))
CallWriteMissionChanges ==
  /\ Exists(save, <<MissionsFile>>)
  /\ \E chs \in MissionChangeInputs :
       DirectCall("missions", MissionsFile, chs,
                  StreamOutcomes(save, MissionsFile,
                                 MissionOutput(save[<<MissionsFile>>].toks, chs)))
CallWriteCollectibleChanges ==
  /\ Exists(save, <<CollectiblesFile>>)
  /\ \E chs \in CollectibleChangeInputs :
       DirectCall("collectibles", CollectiblesFile, chs,
                  StreamOutcomes(save, CollectiblesFile,
                                 CollectibleOutput(save[<<CollectiblesFile>>].toks, chs)))
CallWriteContractSettings ==
  /\ Exists(save, <<ContractsFile>>)
  /\ \E ch \in ContractChangeInputs :
       DirectCall("contract", ContractsFile, ch,
                  StreamOutcomes(save, ContractsFile,
                                 ContractOutput(save[<<ContractsFile>>].toks, ch)))
CallWriteEnvironmentChanges ==
  /\ Exists(save, <<EnvironmentFile>>)
  /\ \E ch \in EnvironmentChangeInputs :
       DirectCall("environment", EnvironmentFile, ch,
                  EnvironmentOutcomes(save, ch))
CallWriteEconomyChanges ==
  /\ Exists(save, <<EconomyFile>>)
  /\ \E ch \in EconomyChangeInputs :
       DirectCall("economy", EconomyFile, ch,
                  StreamOutcomes(save, EconomyFile,
                                 EconomyOutput(save[<<EconomyFile>>].toks, ch)))

InitWriters ==
  /\ save \in WriterDirs
  /\ backupsRoot = FALSE
  /\ backups = EmptyTree
  /\ clock = 0
  /\ ops = 0
  /\ pc = "idle"
  /\ changes = NoChanges
  /\ backup_info = None
  /\ files_modified = <<>>
  /\ errors = <<>>
  /\ result = NoResult
  /\ pre = EmptyTree
  /\ preBackups = EmptyTree
  /\ log = <<>>
  /\ written = {}

NextWriters ==
  \/ CallWriteCareerMoney
  \/ CallWriteFarmFinances
  \/ CallWriteVehicleChanges
  \/ CallWriteSaleChanges
  \/ CallWriteSaleAdditions
  \/ CallWriteFieldChanges
  \/ CallWriteFarmlandChanges
  \/ CallWritePlaceableChanges
  \/ CallWriteMissionChanges
  \/ CallWriteCollectibleChanges
  \/ CallWriteContractSettings
  \/ CallWriteEnvironmentChanges
  \/ CallWriteEconomyChanges

\* Writers called one after another on a directory that holds their document.
SpecWriters == InitWriters /\ [][NextWriters]_vars

\* ------------------------------------------------ properties of the writers
\* the last direct call, the document it was made on, before and after
LastCall == log[Len(log)]
CallFile(name) ==
  CASE name = "career" -> CareerFile
    [] name = "farm" -> FarmsFile
    [] name = "vehicles" -> VehiclesFile
    [] name \in {"sales", "saleAdditions"} -> SalesFile
    [] name = "fields" -> FieldsFile
    [] name = "farmlands" -> FarmlandFile
    [] name = "placeables" -> PlaceablesFile
    [] name = "missions" -> MissionsFile
    [] name = "collectibles" -> CollectiblesFile
    [] name = "contract" -> ContractsFile
    [] name = "environment" -> EnvironmentFile
    [] name = "economy" -> EconomyFile
\* a direct call of the writer has returned Ok
Returned(name) == log # <<>> /\ LastCall.call = name /\ LastCall.ok
Before == LastCall.before[<<CallFile(LastCall.call)>>].toks
After == save[<<CallFile(LastCall.call)>>].toks

\* the tags of the text with this name and one of these kinds
TagPlaces(toks, kinds, tag) == {i \in 1..Len(toks) : toks[i].kind \in kinds /\ toks[i].tag = tag}
\* the change addresses an element of the text
Matches(name, toks, c) ==
  CASE name = "vehicles" ->
         \E i \in TagPlaces(toks, {"start", "empty"}, "vehicle") :
           AttrValue(toks[i].attrs, "id") = c.unique_id
    [] name = "sales" -> c.index < Cardinality(TagPlaces(toks, {"start", "empty"}, "item"))
    [] name = "fields" ->
         \E i \in TagPlaces(toks, {"start", "empty"}, "field") :
           AttrU32(toks[i].attrs, "id") = c.id
    [] name = "farmlands" ->
         \E i \in TagPlaces(toks, {"start", "empty"}, "farmland") :
           AttrU32(toks[i].attrs, "id") = c.id
    [] name = "collectibles" ->
         \E i \in TagPlaces(toks, {"start", "empty"}, "collectible") :
           AttrU32(toks[i].attrs, "index") = c.index
    [] name = "missions" ->
         \E i \in 1..Len(toks) :
           /\ toks[i].kind \in {"start", "empty"} /\ IsMissionTag(toks[i].tag)
           /\ AttrValue(toks[i].attrs, "uniqueId") = c.unique_id
    [] name = "placeables" ->
         c.index < Cardinality(TagPlaces(toks, {"start", "empty"}, "placeable"))
\* the change carries no new value and no deletion
SetsNoField(name, c) ==
  CASE name = "vehicles" -> c = [NoVehicleFields("") EXCEPT !.unique_id = c.unique_id]
    [] name = "sales" -> c = NoSaleFields(c.index)
    [] name = "fields" -> c = NoFieldFields(c.id)
    [] name = "missions" -> c = [NoMissionFields("") EXCEPT !.unique_id = c.unique_id]
    [] name = "placeables" -> c = NoPlaceableFields(c.index)
    [] OTHER -> FALSE
\* the argument of the call matches no element of the text or sets no field
ChangesNothing(name, toks, arg) ==
  CASE name \in {"vehicles", "sales", "fields", "farmlands", "collectibles", "missions",
                 "placeables"} ->
         \A k \in 1..Len(arg) : ~Matches(name, toks, arg[k]) \/ SetsNoField(name, arg[k])
    [] name = "farm" ->
         \/ arg.money = None /\ arg.loan = None
         \/ \A i \in TagPlaces(toks, {"start", "empty"}, "farm") :
              FarmIdOf(toks[i].attrs) # arg.farm_id
    [] name = "contract" -> arg = NoContractFields
    [] name = "environment" -> arg = NoEnvironmentChanges
    [] name = "economy" -> arg = NoEconomyChanges
    [] OTHER -> FALSE

\* C13: a token that no change matches is emitted unmodified: after a writer
\* (vehicle, sale, farm, career, field, mission, placeable, collectible,
\* contract, economy, environment) has returned Ok for a changeset that
\* matches no element or sets no field, the token sequence of the file is
\* the one it had before the call.
C13_UnmatchedTokensKept ==
  (log # <<>> /\ LastCall.ok /\ LastCall.call # "saleAdditions"
   /\ ChangesNothing(LastCall.call, Before, LastCall.arg))
  => After = Before

\* the attribute names of a tag, in order
Keys(as) == [j \in 1..Len(as) |-> as[j].key]
\* the names of the pairs <<attribute name, Option>> whose Option is Some
SomeKeys(S) == {p[1] : p \in {q \in S : IsSome(q[2])}}
\* the attributes one change carries a new value for
ChangeKeys(name, c) ==
  CASE name = "vehicles" ->
         SomeKeys({ <<"age", c.age>>, <<"price", c.price>>, <<"farmId", c.farm_id>>,
                    <<"propertyState", c.property_state>>,
                    <<"operatingTime", c.operating_time>>, <<"fillLevel", c.fill_units>> })
    [] name = "sales" ->
         SomeKeys({ <<"price", c.price>>, <<"damage", c.damage>>, <<"wear", c.wear>>,
                    <<"age", c.age>>, <<"operatingTime", c.operating_time>>,
                    <<"timeLeft", c.time_left>> })
    [] name = "fields" ->
         SomeKeys({ <<"fruitType", c.fruit_type>>, <<"plannedFruit", c.planned_fruit>>,
                    <<"growthState", c.growth_state>>, <<"groundType", c.ground_type>>,
                    <<"weedState", c.weed_state>>, <<"stoneLevel", c.stone_level>>,
                    <<"sprayLevel", c.spray_level>>, <<"sprayType", c.spray_type>>,
                    <<"limeLevel", c.lime_level>>, <<"plowLevel", c.plow_level>>,
                    <<"rollerLevel", c.roller_level>>,
                    <<"stubbleShredLevel", c.stubble_shred_level>>,
                    <<"waterLevel", c.water_level>> })
    [] name = "farmlands" -> {"farmId"}
    [] name = "collectibles" -> {"isCollected"}
    [] name = "missions" ->
         SomeKeys({ <<"reward", c.reward>>, <<"completion", c.completion>>,
                    <<"reimbursement", c.reimbursement>>, <<"status", c.status>> })
    [] name = "placeables" ->
         SomeKeys({ <<"farmId", c.farm_id>>, <<"price", c.price>>,
                    <<"fillLevel", c.production_inputs>>,
                    <<"fillLevel", c.production_outputs>> })
         \cup (IF c.complete_construction THEN {"amountRemaining"} ELSE {})
    [] name = "economy" ->
         SomeKeys({ <<"fillTypeName", c.fill_type_name>>,
                    <<"demandMultiplier", c.demand_multiplier>>,
                    <<"demandStartDay", c.demand_start_day>>,
                    <<"demandStartHour", c.demand_start_hour>>,
                    <<"demandDuration", c.demand_duration>>,
                    <<"isRunning", c.is_running>>, <<"isValid", c.is_valid>> })
\* the attributes the argument of a call carries a new value for
SetKeys(name, arg) ==
  CASE name = "career" -> {"money"}
    [] name = "farm" -> SomeKeys({<<"money", arg.money>>, <<"loan", arg.loan>>})
    [] name = "contract" ->
         SomeKeys({ <<"leaseVehicle", arg.lease_vehicle>>,
                    <<"missionPerFarm", arg.mission_per_farm>>,
                    <<"allowClearAdd", arg.allow_clear_add>> })
    [] name = "environment" ->
         SomeKeys({<<"height", arg.snow_height>>, <<"wetness", arg.ground_wetness>>})
    [] name = "economy" ->
         UNION {ChangeKeys(name, EcoChangeList(arg)[k]) : k \in 1..Len(EcoChangeList(arg))}
    [] OTHER -> UNION {ChangeKeys(name, arg[k]) : k \in 1..Len(arg)}
\* the call neither dropped nor inserted a tag: the tags pair up by place
SameTags(old, new) ==
  /\ Len(new) = Len(old)
  /\ \A i \in 1..Len(old) : new[i].kind = old[i].kind /\ new[i].tag = old[i].tag

\* C14 (a blank-delete, which replaces a tag by an attribute-free one, is not
\* a patch and is left out): a patched element has exactly the attribute names of the original in
\* their order, an attribute whose field is None keeps its value (escaped
\* entities included), and no attribute is added: after a writer that only
\* patches has returned Ok, every tag has the attribute names it had, and
\* every attribute the changeset carries no value for has the value it had.
C14_AttributesKept ==
  (log # <<>> /\ LastCall.ok /\ LastCall.call # "saleAdditions" /\ After # Before
   /\ SameTags(Before, After)
   /\ (LastCall.call = "economy" => EcoDeletions(LastCall.arg) = {}))
  => \A i \in 1..Len(Before) :
       /\ Keys(After[i].attrs) = Keys(Before[i].attrs)
       /\ \A j \in 1..Len(Before[i].attrs) :
            Before[i].attrs[j].key \notin SetKeys(LastCall.call, LastCall.arg)
            => After[i].attrs[j].value = Before[i].attrs[j].value

\* the place of the end tag that closes the element opened before place i,
\* `depth` start tags being open; 0 if the text ends first
RECURSIVE MatchEnd(_, _, _)
MatchEnd(toks, i, depth) ==
  IF i > Len(toks) THEN 0
  ELSE IF toks[i].kind = "start" THEN MatchEnd(toks, i + 1, depth + 1)
  ELSE IF toks[i].kind = "end"
  THEN (IF depth = 1 THEN i ELSE MatchEnd(toks, i + 1, depth - 1))
  ELSE MatchEnd(toks, i + 1, depth)
\* the last place of the element whose tag stands at place i
ElementEnd(toks, i) == IF toks[i].kind = "empty" THEN i ELSE MatchEnd(toks, i + 1, 1)
\* the place number k, counted from 0, of a set of places
NthPlace(S, k) == CHOOSE i \in S : Cardinality({j \in S : j < i}) = k
\* the text without the element at place i, `put` standing in its place
ReplaceElement(toks, i, put) ==
  SubSeq(toks, 1, i - 1) \o put \o SubSeq(toks, ElementEnd(toks, i) + 1, Len(toks))
\* the greatDemand slots of the text, blank ones included
DemandPlaces(toks) == TagPlaces(toks, {"start", "empty"}, "greatDemand")
\* the call blank-deleted slot k of an economy file that has one, and did nothing else
BlankDeleted(k) ==
  /\ log # <<>> /\ LastCall.ok /\ LastCall.call = "economy"
  /\ LastCall.arg = [NoEconomyChanges EXCEPT !.great_demand_deletions = Some(<<k>>)]
  /\ k < Cardinality(DemandPlaces(Before))

\* C16: a blank-delete emits exactly one attribute-free self-closing
\* greatDemand in place of the element and none of the tokens below it, so
\* the output is the input with that element's tokens, from its tag to its
\* matching end tag, replaced by the one blank tag, and every start tag still
\* has its end tag.
C16_BlankDeleteReplacesElement ==
  \A k \in 0..2 :
    BlankDeleted(k)
    => /\ After = ReplaceElement(Before, NthPlace(DemandPlaces(Before), k),
                                 <<EmptyTok("greatDemand", <<>>)>>)
       /\ Readable(After)

\* the sequence holds the value
Holds(seq, x) == \E n \in 1..Len(seq) : seq[n] = x

\* C15: after write_economy_changes has blank-deleted slot k, every other
\* slot keeps its index as parse_economy reports it: the written file is one
\* parse_economy reads, and each great demand it reported before the call with
\* an index other than k it reports after the call, with the same index and
\* the same values.
C15_OtherSlotsKeepIndex ==
  \A k \in 0..2 :
    BlankDeleted(k)
    => /\ Readable(After)
       /\ \A n \in 1..Len(ParseGreatDemands(Before)) :
            ParseGreatDemands(Before)[n].index # k
            => Holds(ParseGreatDemands(After), ParseGreatDemands(Before)[n])

\* the vehicle elements of the text that carry this id
VehiclePlaces(toks, id) ==
  {i \in TagPlaces(toks, {"start"}, "vehicle") : AttrValue(toks[i].attrs, "id") = Raw(id)}
\* the sale items of the text, in the order parse_sales numbers them
ItemPlaces(toks) == TagPlaces(toks, {"start", "empty"}, "item")
\* the call hard-deleted the vehicle with this id, which the file holds, and did nothing else
VehicleDeleted(id) ==
  /\ log # <<>> /\ LastCall.ok /\ LastCall.call = "vehicles"
  /\ LastCall.arg = <<[NoVehicleFields(id) EXCEPT !.delete = TRUE]>>
  /\ VehiclePlaces(Before, id) # {}
\* the call hard-deleted the sale item at position k, which the file holds, and did nothing else
SaleItemDeleted(k) ==
  /\ log # <<>> /\ LastCall.ok /\ LastCall.call = "sales"
  /\ LastCall.arg = <<[NoSaleFields(k) EXCEPT !.delete = TRUE]>>
  /\ k < Cardinality(ItemPlaces(Before))

\* C17: hard-deleting one element, a vehicle by its id or a sale item by its
\* position, yields the input without exactly that element's subtree, from
\* its start tag to the matching end tag (elements of the same name nested in
\* it included), and the number of sale items parse_sales reads drops by
\* exactly one.
C17_HardDeleteRemovesSubtree ==
  /\ \A id \in {"v1", "v2"} :
       VehicleDeleted(id)
       => After = ReplaceElement(Before, NthPlace(VehiclePlaces(Before, id), 0), <<>>)
  /\ \A k \in 0..1 :
       SaleItemDeleted(k)
       => /\ After = ReplaceElement(Before, NthPlace(ItemPlaces(Before), k), <<>>)
          /\ Len(ParseSales(After)) = Len(ParseSales(Before)) - 1

\* the last two calls: write_sale_changes deleting position 0 of a sales
\* file that lists at least two items, then write_sale_additions of at least
\* one item on the file the first call left, both Ok
DeletedFirstThenAdded ==
  /\ Len(log) >= 2
  /\ log[Len(log) - 1].call = "sales" /\ log[Len(log) - 1].ok
  /\ log[Len(log) - 1].arg = <<[NoSaleFields(0) EXCEPT !.delete = TRUE]>>
  /\ LastCall.call = "saleAdditions" /\ LastCall.ok /\ LastCall.arg # <<>>
  /\ Len(ParseSales(log[Len(log) - 1].before[<<SalesFile>>].toks)) >= 2
\* the sales list parse_sales read before the first of the two calls
SalesBeforeBoth == ParseSales(log[Len(log) - 1].before[<<SalesFile>>].toks)

\* C18: with a sales list [a, b, ...], after write_sale_changes has deleted
\* position 0 and write_sale_additions has then added n, parse_sales reads b
\* at position 0 and n last.
C18_DeleteThenAdd ==
  DeletedFirstThenAdded
  => LET read == ParseSales(save[<<SalesFile>>].toks)
     IN /\ read # <<>>
        /\ read[1] = [SalesBeforeBoth[2] EXCEPT !.index = 0]
        /\ read[Len(read)].xml_filename = LastCall.arg[Len(LastCall.arg)].xml_filename
        /\ read[Len(read)].index = Len(read) - 1

\* write_sale_additions returned Ok on a directory that held a sales.xml
AddedToExisting ==
  /\ Returned("saleAdditions")
  /\ Exists(LastCall.before, <<SalesFile>>)
  /\ ~Malformed(LastCall.before[<<SalesFile>>])

\* C19: write_sale_additions on an existing sales.xml inserts the new items,
\* in their order, immediately before the last </sales>; the text before and
\* the text from that tag on are what they were; parse_sales reads the
\* existing items at the positions they had and the new items at the
\* positions count .. count+n-1.  A call without new items leaves the text as
\* it is.
C19_AdditionsBeforeClosingTag ==
  AddedToExisting
  => LET n == Len(LastCall.arg)
         old == ParseSales(Before)
         new == ParseSales(After)
         ends == TagPlaces(Before, {"end"}, "sales")
     IN /\ n = 0 => After = Before
        /\ n > 0 => \E p \in ends :
             /\ \A q \in ends : q <= p
             /\ SubSeq(After, 1, p - 1) = SubSeq(Before, 1, p - 1)
             /\ SubSeq(After, p, p + 3 * n - 1) = FormatSaleItems(LastCall.arg)
             /\ SubSeq(After, p + 3 * n, Len(After)) = SubSeq(Before, p, Len(Before))
        /\ Len(new) = Len(old) + n
        /\ \A i \in 1..Len(old) : new[i] = old[i]
        /\ \A j \in 1..n :
             /\ new[Len(old) + j].index = Len(old) + j - 1
             /\ new[Len(old) + j].xml_filename = LastCall.arg[j].xml_filename
             /\ new[Len(old) + j].price = LastCall.arg[j].price
\* two items were added to a file that listed two
C19_Witness ==
  AddedToExisting /\ Len(LastCall.arg) = 2 /\ Len(ParseSales(Before)) = 2
  /\ Len(ParseSales(After)) = 4

\* ------------------------------------------------------ backup/manager.rs
\* infos.sort_by(|a, b| b.name.cmp(&a.name)): the names, greatest first.  A
\* name is backup_<local time to the second>; names compare as their seconds.
RECURSIVE SortDescending(_)
SortDescending(names) ==
  IF names = {} THEN <<>>
  ELSE LET top == CHOOSE n \in names : \A m \in names : m <= n
       IN <<top>> \o SortDescending(names \ {top})

\* what a command on the backups returned
CmdResult(cmd, ok, value) == [kind |-> "cmd", cmd |-> cmd, ok |-> ok, value |-> value]

\* list_backups: Ok(empty) without a backups directory; otherwise the
\* BackupInfo of each backup directory, sorted, unless read_dir, file_type or
\* dir_size fails
ListBackups(root, bks) ==
  IF ~root THEN {CmdResult("list_backups", TRUE, <<>>)}
  ELSE { CmdResult("list_backups", TRUE,
                   [i \in 1..Cardinality(DOMAIN bks) |->
                      [name |-> SortDescending(DOMAIN bks)[i]]]),
         CmdResult("list_backups", FALSE, <<>>) }

\* Local::now() is the local wall clock: it is set back when daylight saving
\* time ends, or by the user or the time service.
LocalTimeSetBack ==
  /\ clock > 0
  /\ clock' \in 0..(clock - 1)
  /\ UNCHANGED <<fsVars, ops, callVars>>

\* the create_backup command; the history keeps the name it gave
CallCreateBackup ==
  /\ pc = "idle"
  /\ ops < MaxOps
  /\ ops' = ops + 1
  /\ \E r \in CreateBackupOutcomes(save, backupsRoot, backups, clock) :
       /\ backupsRoot' = r.root
       /\ backups' = r.backups
       /\ log' = Append(log, Invocation("create_backup", r.name, r.ok, save))
       /\ result' = CmdResult("create_backup", r.ok, r.name)
  /\ UNCHANGED <<save, clock, pc, changes, backup_info, files_modified, errors,
                 pre, preBackups, written>>

\* the list_backups command: it reads, and changes no file
CallListBackups ==
  /\ pc = "idle"
  /\ result' \in ListBackups(backupsRoot, backups)
  /\ UNCHANGED <<fsVars, clock, ops, pc, changes, backup_info, files_modified, errors,
                 pre, preBackups, log, written>>

\* The backup_name of restore_backup and delete_backup is a string the
\* caller chooses: the name of a second, or the empty string, which
\* backups.join(backup_name) turns into the backups directory itself.
Stamp(t) == [stamp |-> t]
EmptyName == [empty |-> TRUE]
NameInputs == {Stamp(t) : t \in 0..MaxClock} \cup {EmptyName}
\* backup_path.exists()
BackupPathExists(root, bks, name) ==
  root /\ (name = EmptyName \/ name.stamp \in DOMAIN bks)

\* the entries of a directory, and the tree without one / with only one of them
TopEntries(tree) == {p[1] : p \in DOMAIN tree}
WithoutEntry(tree, e) == [p \in {q \in DOMAIN tree : q[1] # e} |-> tree[p]]
OnlyEntry(tree, e) == [p \in {q \in DOMAIN tree : q[1] = e} |-> tree[p]]
\* the backups directory as a tree: backup_<second>/<path>
BackupsDirTree(bks) ==
  [q \in UNION {{<<Stamp(t)>> \o p : p \in DOMAIN bks[t]} : t \in DOMAIN bks} |->
     bks[q[1].stamp][Tail(q)]]
\* the directory at backup_path
BackupAt(bks, name) == IF name = EmptyName THEN BackupsDirTree(bks) ELSE bks[name.stamp]

\* how restore_backup and delete_backup end
ManagerRes(ok, tree, root, bks) == [ok |-> ok, tree |-> tree, root |-> root, backups |-> bks]

\* the two loops of restore_backup after its safety backup: the removal of
\* the entries of the save directory, then the copy of the entries of the
\* backup; either stops at the first entry that fails (shown: at the first
\* entry, and after one entry)
ReplaceContents(tree, root, bks, name) ==
  LET src == BackupAt(bks, name)
  IN {ManagerRes(FALSE, tree, root, bks)}
     \cup {ManagerRes(FALSE, WithoutEntry(tree, e), root, bks) : e \in TopEntries(tree)}
     \cup {ManagerRes(FALSE, EmptyTree, root, bks)}
     \cup {ManagerRes(FALSE, OnlyEntry(src, e), root, bks) : e \in TopEntries(src)}
     \cup {ManagerRes(TRUE, src, root, bks)}

\* restore_backup(savegame_path, backup_name) at second `now`
RestoreBackupOutcomes(tree, root, bks, now, name) ==
  IF ~BackupPathExists(root, bks, name) THEN {ManagerRes(FALSE, tree, root, bks)}
  ELSE UNION { IF r.ok THEN ReplaceContents(tree, r.root, r.backups, name)
               ELSE {ManagerRes(FALSE, tree, r.root, r.backups)}
               : r \in CreateBackupOutcomes(tree, root, bks, now) }

\* delete_backup(savegame_path, backup_name): remove_dir_all removes the
\* directory at backup_path, or stops at an entry it cannot remove (shown: at
\* the first entry, and after one entry)
DeleteBackupOutcomes(tree, root, bks, name) ==
  IF ~BackupPathExists(root, bks, name) THEN {ManagerRes(FALSE, tree, root, bks)}
  ELSE IF name = EmptyName
  THEN {ManagerRes(FALSE, tree, root, bks)}
       \cup {ManagerRes(FALSE, tree, root, [t \in (DOMAIN bks) \ {u} |-> bks[t]])
               : u \in DOMAIN bks}
       \cup {ManagerRes(TRUE, tree, FALSE, EmptyTree)}
  ELSE {ManagerRes(FALSE, tree, root, bks)}
       \cup {ManagerRes(FALSE, tree, root,
                        [bks EXCEPT ![name.stamp] = WithoutEntry(@, e)])
               : e \in TopEntries(bks[name.stamp])}
       \cup {ManagerRes(TRUE, tree, root, [t \in (DOMAIN bks) \ {name.stamp} |-> bks[t]])}

\* the directories a command was called on, and the second of the call
CalledOn(tree, root, bks, now) == [tree |-> tree, root |-> root, backups |-> bks, now |-> now]

\* a command of the backup manager with a backup name; the history keeps
\* the directories it was called on, as do `pre` and `preBackups`
ManagerCall(cmd, name, outcomes) ==
  /\ pc = "idle"
  /\ ops < MaxOps
  /\ ops' = ops + 1
  /\ \E r \in outcomes :
       /\ save' = r.tree
       /\ backupsRoot' = r.root
       /\ backups' = r.backups
       /\ log' = Append(log, Invocation(cmd, name, r.ok,
                                        CalledOn(save, backupsRoot, backups, clock)))
       /\ result' = CmdResult(cmd, r.ok, name)
  /\ pre' = save
  /\ preBackups' = backups
  /\ UNCHANGED <<clock, pc, changes, backup_info, files_modified, errors, written>>

CallRestoreBackup ==
  \E name \in NameInputs :
    ManagerCall("restore_backup", name,
                RestoreBackupOutcomes(save, backupsRoot, backups, clock, name))
CallDeleteBackup ==
  \E name \in NameInputs :
    ManagerCall("delete_backup", name,
                DeleteBackupOutcomes(save, backupsRoot, backups, name))

NextBackups ==
  \/ Tick
  \/ LocalTimeSetBack
  \/ CallCreateBackup
  \/ CallListBackups
  \/ CallRestoreBackup
  \/ CallDeleteBackup

\* The backup commands on one save directory, the local clock running.
SpecBackups == Init /\ [][NextBackups]_vars

\* list_backups has just returned Ok
Listed == result.kind = "cmd" /\ result.cmd = "list_backups" /\ result.ok
\* the place of a name in the list, 0 if it is not listed
ListedAt(infos, name) ==
  IF \E i \in 1..Len(infos) : infos[i].name = name
  THEN CHOOSE i \in 1..Len(infos) : infos[i].name = name
  ELSE 0

\* C20: list_backups returns an empty list, not an error, when the backups
\* directory does not exist; otherwise it returns the backup directories
\* sorted by name descending, and that is newest first: of two backups
\* created at different times the later one is listed before the earlier one.
C20_ListNewestFirst ==
  /\ (result.kind = "cmd" /\ result.cmd = "list_backups" /\ ~backupsRoot)
     => result = CmdResult("list_backups", TRUE, <<>>)
  /\ (Listed /\ backupsRoot)
     => /\ {result.value[i].name : i \in 1..Len(result.value)} = DOMAIN backups
        /\ \A i, j \in 1..Len(result.value) :
             i < j => result.value[i].name > result.value[j].name
        /\ \A i, j \in 1..Len(log) :
             (i < j /\ log[i].call = "create_backup" /\ log[i].ok
              /\ log[j].call = "create_backup" /\ log[j].ok
              /\ {log[i].arg, log[j].arg} \subseteq DOMAIN backups)
             => /\ ListedAt(result.value, log[j].arg) > 0
                /\ ListedAt(result.value, log[j].arg) < ListedAt(result.value, log[i].arg)

\* the last call was this command of the backup manager
Managed(cmd) == log # <<>> /\ LastCall.call = cmd
\* the directories the last command of the backup manager was called on
Was == LastCall.before
\* the name is that of a backup directory the backups directory held
NamesBackup(name) == Was.root /\ "stamp" \in DOMAIN name /\ name.stamp \in DOMAIN Was.backups

\* C21: restore_backup with a name that does not exist in the backups
\* directory returns an error, creates no safety backup, and deletes or
\* changes nothing in the save directory.
C21_RestoreOfMissingName ==
  (Managed("restore_backup") /\ ~NamesBackup(LastCall.arg))
  => /\ ~LastCall.ok
     /\ save = Was.tree
     /\ backups = Was.backups
     /\ backupsRoot = Was.root

\* C22: restore_backup takes its safety backup before it deletes an entry of
\* the save directory: when the safety backup fails (the backups are as they
\* were) nothing is deleted, and whenever restore_backup has removed or
\* overwritten anything in the save directory, also when it then failed
\* during the copy, a backup whose contents are the contents the save
\* directory had before the call exists.
C22_SafetyBackupBeforeDelete ==
  Managed("restore_backup")
  => /\ backups = Was.backups => save = Was.tree
     /\ save # Was.tree => \E t \in DOMAIN backups : backups[t] = Was.tree

\* C23: after restore_backup(save_dir, name) has returned Ok, the contents of
\* the save directory are the contents the backup `name` had before the call,
\* also when the restore is issued in the clock second in which the named
\* backup was created.
C23_RestoreGivesBackupContents ==
  (Managed("restore_backup") /\ LastCall.ok /\ NamesBackup(LastCall.arg))
  => save = Was.backups[LastCall.arg.stamp]

\* C24: delete_backup with a name that does not exist returns an error and
\* removes nothing; with the name of a backup it removes exactly that backup
\* directory and leaves every other backup and the save directory as they
\* were.
C24_DeleteExactlyOne ==
  Managed("delete_backup")
  => /\ ~NamesBackup(LastCall.arg)
        => /\ ~LastCall.ok
           /\ backups = Was.backups /\ backupsRoot = Was.root /\ save = Was.tree
     /\ (NamesBackup(LastCall.arg) /\ LastCall.ok)
        => /\ backups = [t \in (DOMAIN Was.backups) \ {LastCall.arg.stamp} |-> Was.backups[t]]
           /\ backupsRoot = Was.root /\ save = Was.tree

\* the step is a delete_backup called with the name of this backup
DeletesByName(t) ==
  /\ log' = Append(log, log'[Len(log')])
  /\ log'[Len(log')].call = "delete_backup"
  /\ log'[Len(log')].arg = Stamp(t)

\* C25: once a backup directory has been created no later operation changes
\* its contents; a backup only ever disappears as a whole, through
\* delete_backup of its name.
C25_BackupsNeverChange ==
  [][ \A t \in DOMAIN backups :
        /\ t \in DOMAIN backups' => backups'[t] = backups[t]
        /\ t \notin DOMAIN backups' => DeletesByName(t) ]_vars

\* the elements open around place i of the text, outermost first
PathTo(toks, i) == OpenTags(toks, i - 1).open
\* place i holds a scalar of the environment at the end of its full path:
\* the text of environment/dayTime or environment/currentDay, or the tag of
\* environment/weather/snow or environment/weather/ground
OnScalarPath(toks, i) ==
  \/ /\ toks[i].kind = "text"
     /\ PathTo(toks, i) \in {<<"environment", "dayTime">>, <<"environment", "currentDay">>}
  \/ /\ toks[i].kind = "empty" /\ toks[i].tag \in {"snow", "ground"}
     /\ PathTo(toks, i) = <<"environment", "weather">>
\* write_environment_changes returned Ok on a changeset without a forecast
ScalarsWritten ==
  /\ Returned("environment")
  /\ LastCall.arg.weather_forecast = None

\* C26: write_environment_changes substitutes a scalar only at the element
\* reached by the full path from the root; an element of the same tag
\* elsewhere (a dayTime or currentDay under another parent, a snow or ground
\* outside weather or inside forecast) is passed through unchanged: the
\* output differs from the input at most at the places on a scalar path.
C26_ScalarsOnlyOnFullPath ==
  ScalarsWritten
  => /\ Len(After) = Len(Before)
     /\ \A i \in 1..Len(Before) : After[i] # Before[i] => OnScalarPath(Before, i)

\* write_sale_changes returned Ok on one change for a position parse_sales reports
OneSaleChange ==
  /\ Returned("sales")
  /\ Len(LastCall.arg) = 1
  /\ LastCall.arg[1].index < Len(ParseSales(Before))
\* the sale item without its position
Unplaced(item) == [item EXCEPT !.index = 0]

\* C27: write_sale_changes addresses the items by the index parse_sales
\* assigns, also in a file that mixes <item>...</item> and self-closing
\* <item/>: a change with index i deletes exactly the item parse_sales
\* reported at index i, or patches exactly that item (its price, when the
\* change carries one) and leaves the other items as they were.
C27_SaleIndexIsParserIndex ==
  OneSaleChange
  => LET c == LastCall.arg[1]
         old == ParseSales(Before)
         new == ParseSales(After)
     IN IF c.delete
        THEN /\ Len(new) = Len(old) - 1
             /\ \A n \in 1..Len(new) :
                  Unplaced(new[n]) = Unplaced(old[IF n <= c.index THEN n ELSE n + 1])
        ELSE /\ Len(new) = Len(old)
             /\ \A n \in 1..Len(old) :
                  IF n = c.index + 1
                  THEN IsSome(c.price) => new[n].price = c.price.some
                  ELSE new[n] = old[n]

\* the reader reports a parse error while the last call streams its document:
\* the text holds an end tag that does not close the open start tag
ReaderReportsError ==
  /\ log # <<>>
  /\ LastCall.call # "saleAdditions"
  /\ Exists(LastCall.before, <<CallFile(LastCall.call)>>)
  /\ ~Malformed(LastCall.before[<<CallFile(LastCall.call)>>])
  /\ ~Readable(Before)
\* C28: when the XML reader reports a parse error while a writer streams a
\* document, the writer returns a parse error that names the file and the
\* save directory is exactly as it was before the call: no temp file is
\* written and nothing is renamed.
C28_ParseErrorLeavesFile ==
  ReaderReportsError =>
    /\ ~LastCall.ok
    /\ result = XmlParseError(CallFile(LastCall.call))
    /\ save = LastCall.before

\* the <unit/> tags of a text from place i on, each with the vehicle it
\* belongs to (the innermost open <vehicle>) and whether it lies inside a
\* <fillUnit>; `open` holds the open start tags
UnitOwner(open) ==
  LET vs == {k \in 1..Len(open) : open[k].tag = "vehicle"}
      last == IF vs = {} THEN 0 ELSE CHOOSE k \in vs : \A j \in vs : j <= k
  IN [id |-> IF last = 0 THEN NoText ELSE AttrValue(open[last].attrs, "id"),
      vehicle |-> last # 0,
      fill |-> \E k \in 1..Len(open) : open[k].tag = "fillUnit"]
RECURSIVE UnitsFrom(_, _, _)
UnitsFrom(toks, i, open) ==
  IF i > Len(toks) THEN <<>>
  ELSE LET e == toks[i] IN
    IF e.kind = "start" THEN UnitsFrom(toks, i + 1, Append(open, e))
    ELSE IF e.kind = "end" THEN UnitsFrom(toks, i + 1, SubSeq(open, 1, Len(open) - 1))
    ELSE IF e.kind = "empty" /\ e.tag = "unit"
    THEN <<[owner |-> UnitOwner(open), unit |-> e]>> \o UnitsFrom(toks, i + 1, open)
    ELSE UnitsFrom(toks, i + 1, open)
UnitsIn(toks) == UnitsFrom(toks, 1, <<>>)
\* the ids of the vehicles of a text
VehicleIds(toks) ==
  {AttrValue(toks[i].attrs, "id") : i \in TagPlaces(toks, {"start"}, "vehicle")}
\* a change of the call carries fill-unit changes for the vehicle with this id
CarriesFills(chs, id) ==
  \E k \in 1..Len(chs) : chs[k].unique_id = id /\ IsSome(chs[k].fill_units)
\* the units a fill-unit change of the call may touch: those inside a
\* <fillUnit> that belong to a vehicle whose id a change with fill units names
Addressed(chs, u) == u.owner.vehicle /\ u.owner.fill /\ CarriesFills(chs, u.owner.id)
\* the units of a text that are not addressed, and not those of vehicle `gone`
UnitsKept(toks, chs, gone) ==
  LET Keeps(u) == ~Addressed(chs, u) /\ ~(u.owner.vehicle /\ u.owner.id \in gone)
  IN SelectSeq(UnitsIn(toks), Keeps)
\* C29: the fill-unit changes of a vehicle change touch only the <unit>
\* elements inside the <fillUnit> of the vehicle whose id matches it: every
\* other unit that is still in the file, of a vehicle before or after it,
\* changed or not, is there with its original attributes, in the original
\* order.
C29_FillChangesStayInVehicle ==
  (log # <<>> /\ LastCall.call = "vehicles" /\ LastCall.ok) =>
    LET gone == VehicleIds(Before) \ VehicleIds(After)
    IN UnitsKept(After, LastCall.arg, {}) = UnitsKept(Before, LastCall.arg, gone)
\* a call changed the fill level of a unit of one vehicle while another vehicle
\* of the file, before it and after it, has a unit with the same index
C29_Witness ==
  /\ log # <<>> /\ LastCall.call = "vehicles" /\ LastCall.ok
  /\ Before = VehiclesFillDoc.toks
  /\ CarriesFills(LastCall.arg, Raw("v2"))
  /\ UnitsIn(After) # UnitsIn(Before)
  /\ \E k \in 1..Len(UnitsIn(After)) :
       /\ UnitsIn(After)[k].owner.id = Raw("v2")
       /\ UnitsIn(After)[k].unit # UnitsIn(Before)[k].unit
  /\ \E k \in 1..Len(UnitsIn(After)) :
       /\ UnitsIn(After)[k].owner.id = Raw("v1")
       /\ AttrValue(UnitsIn(After)[k].unit.attrs, "index") = IntStr(1)

\* write_sale_changes returned Ok on a batch of a delete of position i and a
\* price for position j, both positions parse_sales reports, i before j
DeleteAndPatch(i, j) ==
  /\ Returned("sales")
  /\ Len(LastCall.arg) = 2
  /\ \E d, c \in 1..2 :
       /\ LastCall.arg[d].delete /\ LastCall.arg[d].index = i
       /\ ~LastCall.arg[c].delete /\ LastCall.arg[c].index = j
       /\ IsSome(LastCall.arg[c].price)
  /\ i < j /\ j < Len(ParseSales(Before))
\* the price a batch carries for position j
BatchPrice(j) ==
  LET c == CHOOSE c \in 1..Len(LastCall.arg) :
             LastCall.arg[c].index = j /\ ~LastCall.arg[c].delete
  IN LastCall.arg[c].price.some
\* C30: in one write_sale_changes call every index is a position in the
\* original document: a batch that deletes position i and patches position
\* j > i removes the item that was at i and patches the item that was at j;
\* every other item is as it was.
C30_BatchIndexIsOriginalPosition ==
  \A i \in 0..1 : \A j \in 1..2 :
    DeleteAndPatch(i, j)
    => LET old == ParseSales(Before)
           new == ParseSales(After)
       IN /\ Len(new) = Len(old) - 1
          /\ \A n \in 1..Len(new) :
               LET o == IF n <= i THEN n ELSE n + 1
               IN IF o = j + 1
                  THEN Unplaced(new[n]) = Unplaced([old[o] EXCEPT !.price = BatchPrice(j)])
                  ELSE Unplaced(new[n]) = Unplaced(old[o])

====
